---- MODULE Spec2Model ----
(***************************************************************************)
(* Model of salt-lsp's SLS parser (salt_lsp/parser.py) and of the path     *)
(* resolver (salt_lsp/utils.py) that reads its trees.                      *)
(*                                                                         *)
(* The parser is a token handler, Parser._process_token, run once per      *)
(* token of yaml.scan(document), followed by the recovery loop of          *)
(* Parser.parse when the scanner raises.  The AST is an arena: a sequence  *)
(* of node records, a node's identity being its index, the root Tree       *)
(* being node 1.  Python's == on nodes is the dataclass, structural,       *)
(* equality (NodeEq), not identity.                                        *)
(*                                                                         *)
(* The documents are sequences of lines, every line ended by a line break. *)
(* A line is an indentation column, a shape and a text:                    *)
(*    K   "text:"         KV  "text: v"      V   "text"                    *)
(*    E   "-"             EV  "- text"                                     *)
(*    EK  "- text:"       EKV "- text: v"    EKF "- text: [v]"             *)
(*    F   "[v]"           DOC "---"                                        *)
(* The scanner is PyYAML's, followed on these lines: its indentation       *)
(* stack, the tokens of each line with their marks, and the error it       *)
(* raises for a plain scalar that must be a key and has no colon.          *)
(***************************************************************************)
EXTENDS Integers, Sequences, FiniteSets, TLC

\* ------------------------------------------------------------ bounds

\* The longest document, in lines the scanner reads tokens of; one more line
\* may follow them, the line being typed, at which the scanner raises.
MaxLines == 4

\* The last column of the positions asked of the path resolver.
MaxCol == 5

\* The most nodes the visitor handed to visit returns False on.
MaxRefused == 1

\* The longest name of a state call or requisite looked up on its own, in characters.
MaxName == 4

\* The longest value of an include resolved to a file, in characters.
MaxValue == 3

\* The largest line and column of the positions compared on their own.
MaxCoord == 2

\* The longest path a UriDict is keyed with, in characters.
MaxPath == 3

\* The most operations made on a UriDict.
MaxOps == 2

\* The most tokens of a Jinja document.
MaxTokens == 4

\* The stray closing brackets a document ends with, at most.
MaxStray == 2

\* The most lines of the source of a document of the workspace.
MaxSource == 1

\* The most entries of the include list of an SLS file of the workspace.
MaxIncludes == 2

\* The calls Python lets nest before it raises RecursionError.
RecursionLimit == 4

\* The longest contents of a file the server is told changes of, in characters.
MaxText == 2

\* The most content changes of one notification.
MaxChanges == 2

\* ------------------------------------------------------------ positions

\* Position(line, col).  NoPos stands for Python's None.
Pos(l, c) == [line |-> l, col |-> c]

NoPos == [line |-> -1, col |-> -1]

\* A comparison that looks at the lines only.
PosLt_LineOnly(a, b) == a.line < b.line

\* Position.__lt__
PosLt(a, b) == a.line < b.line \/ (a.line = b.line /\ a.col < b.col)

\* Position.__gt__
PosGt(a, b) == a.line > b.line \/ (a.line = b.line /\ a.col > b.col)

\* Position.__le__
PosLe(a, b) == PosLt(a, b) \/ a = b

\* Position.__ge__
PosGe(a, b) == PosGt(a, b) \/ a = b

\* ------------------------------------------------------------ tokens

\* None, for an optional string.
NoStr == "<None>"

Token(k, l, c0, c1, v) == [kind |-> k, start |-> Pos(l, c0), end |-> Pos(l, c1), value |-> v]

NoToken == [kind |-> "None", start |-> NoPos, end |-> NoPos, value |-> NoStr]

StartKinds == {"BlockMappingStart", "BlockSequenceStart", "FlowSequenceStart", "FlowMappingStart"}

EndKinds == {"BlockEnd", "FlowSequenceEnd", "FlowMappingEnd"}

\* ------------------------------------------------------------ documents

Shapes == {"K", "KV", "V", "E", "EV", "EK", "EKV", "EKF", "F", "DOC"}

\* The texts a shape is written with at column c: a plain name anywhere, the
\* keywords where the parser may take them for more than a name, include and
\* extend at the root and one step below it, the requisite keyword from the
\* level of the parameters on.
TextsOf(shape, c) ==
    CASE shape = "K" -> {"a"} \cup (IF c <= 2 THEN {"include", "extend"} ELSE {})
                            \cup (IF c >= 4 THEN {"require"} ELSE {})
      [] shape = "KV" -> {"a"}
      [] shape = "V" -> {"a"} \cup (IF c = 0 THEN {"include"} ELSE {})
      [] shape = "EV" -> {"a"} \cup (IF c >= 4 THEN {"require"} ELSE {})
      [] shape = "EK" -> {"a"} \cup (IF c >= 4 THEN {"require"} ELSE {})
      [] shape = "EKV" -> {"a"}
      [] shape = "EKF" -> {"a"}
      [] OTHER -> {""}

\* Shapes whose last token is a plain scalar: PyYAML's scan_plain goes on
\* into a following line that is indented deeper than the open block.
PlainEnd == {"KV", "EV", "EKV", "V"}

Line(c, sh, tx) == [col |-> c, shape |-> sh, text |-> tx]

\* Indentation columns: an open block's column, or one step (two columns) deeper.
Cols == {0, 2, 4, 6, 8, 10}

Last(s) == s[Len(s)]

\* The members of a list.
Elems(seq) == { seq[i] : i \in 1..Len(seq) }

Front(s) == SubSeq(s, 1, Len(s) - 1)

RECURSIVE Spaces(_)
Spaces(n) == IF n = 0 THEN "" ELSE " " \o Spaces(n - 1)

\* ------------------------------------------------------------ the scanner

\* Scanner.unwind_indent: the indentation levels that stay open at column c.
Unwind(ind, c) == SelectSeq(ind, LAMBDA i : i <= c)

\* "[v]": a flow sequence of one plain scalar, at column c of line l.
FlowTokens(l, c) ==
    << Token("FlowSequenceStart", l, c, c + 1, NoStr),
       Token("Scalar", l, c + 1, c + 2, "v"),
       Token("FlowSequenceEnd", l, c + 2, c + 3, NoStr) >>

\* The tokens of line ln, line number l, read with the indentation stack ind:
\* Scanner.fetch_more_tokens over one line (unwind_indent, fetch_block_entry,
\* fetch_plain, fetch_value with its simple key, fetch_flow_sequence_start/end,
\* fetch_document_start), and the indentation stack after it.
LineTokens(ind, l, ln) ==
    LET c == ln.col
        kept == Unwind(ind, IF ln.shape = "DOC" THEN -1 ELSE c)
        ends == [i \in 1..(Len(ind) - Len(kept)) |-> Token("BlockEnd", l, c, c, NoStr)]
        isEntry == ln.shape \in {"E", "EV", "EK", "EKV", "EKF"}
        isKey == ln.shape \in {"K", "KV", "EK", "EKV", "EKF"}
        newSeq == isEntry /\ Last(kept) < c
        ind1 == IF newSeq THEN Append(kept, c) ELSE kept
        entry == (IF newSeq THEN << Token("BlockSequenceStart", l, c, c, NoStr) >> ELSE << >>)
                 \o (IF isEntry THEN << Token("BlockEntry", l, c, c + 1, NoStr) >> ELSE << >>)
        kc == IF isEntry THEN c + 2 ELSE c
        n == Len(ln.text)
        newMap == isKey /\ Last(ind1) < kc
        ind2 == IF newMap THEN Append(ind1, kc) ELSE ind1
        key == IF isKey
               THEN (IF newMap THEN << Token("BlockMappingStart", l, kc, kc, NoStr) >> ELSE << >>)
                    \o << Token("Key", l, kc, kc, NoStr),
                          Token("Scalar", l, kc, kc + n, ln.text),
                          Token("Value", l, kc + n, kc + n + 1, NoStr) >>
               ELSE << >>
        vc == kc + n + 2
        val == CASE ln.shape \in {"KV", "EKV"} -> << Token("Scalar", l, vc, vc + 1, "v") >>
                 [] ln.shape = "EKF" -> FlowTokens(l, vc)
                 [] ln.shape \in {"EV", "V"} -> << Token("Scalar", l, kc, kc + n, ln.text) >>
                 [] ln.shape = "F" -> FlowTokens(l, c)
                 [] ln.shape = "DOC" -> << Token("DocumentStart", l, 0, 3, NoStr) >>
                 [] OTHER -> << >>
    IN [toks |-> ends \o entry \o key \o val, ind |-> ind2]

\* Scanner.save_possible_simple_key: a plain scalar at the column of the open
\* block must be a key (required); with no colon on its line the scanner raises
\* (stale_possible_simple_keys) before it yields any token of the line.
RequiredKey(ind, ln) == ln.shape = "V" /\ Last(Unwind(ind, ln.col)) = ln.col

\* The shapes of a line that is a closing bracket with no opening one.
Closers == {"]", "}"}

CloserKind(sh) == IF sh = "]" THEN "FlowSequenceEnd" ELSE "FlowMappingEnd"

\* The tokens of a line that is a closing bracket at column c, with no flow
\* collection open: unwind_indent closes the blocks right of it, then
\* fetch_flow_collection_end yields the end token whatever the flow level.
StrayTokens(ind, l, c, sh) ==
    [i \in 1..(Len(ind) - Len(Unwind(ind, c))) |-> Token("BlockEnd", l, c, c, NoStr)]
    \o << Token(CloserKind(sh), l, c, c + 1, NoStr) >>

\* Scanner.fetch_stream_end, the document ending after n lines.
EndTokens(ind, n) ==
    [i \in 1..(Len(ind) - 1) |-> Token("BlockEnd", n, 0, 0, NoStr)]
    \o << Token("StreamEnd", n, 0, 0, NoStr) >>

\* The lines that may follow in a document: indented at most one step deeper
\* than the open block; not deeper than it after a plain scalar (the scalar
\* would go on); "---" at column 0; a flow sequence only where no block is open.
NextLines(ind, doc) ==
    LET plain == Len(doc) > 0 /\ Last(doc).shape \in PlainEnd
        maxcol == IF plain THEN Last(ind) ELSE Last(ind) + 2
    IN { ln \in { Line(c, sh, tx) : c \in Cols, sh \in Shapes, tx \in {"", "a", "include", "extend", "require"} } :
            /\ ln.col <= maxcol
            /\ ln.text \in TextsOf(ln.shape, ln.col)
            /\ (ln.shape = "DOC" => ln.col = 0)
            /\ (ln.shape = "F" => Len(ind) = 1) }

\* ------------------------------------------------------------ the AST

\* StateParameterNode.value: None, a string, or the list of raw TokenNodes.
NoValue == [tag |-> "none", text |-> NoStr, toks |-> << >>]

StrValue(tx) == [tag |-> "str", text |-> tx, toks |-> << >>]

TokensValue(ids) == [tag |-> "tokens", text |-> NoStr, toks |-> ids]

\* A node as its constructor leaves it.  name holds the one string of the
\* class (Tree: none; IncludeNode.value, StateParameterNode.name,
\* RequisiteNode.module, RequisitesNode.kind, StateCallNode.name,
\* StateNode.identifier), ref RequisiteNode.reference, kids the class's list
\* (includes, parameters, requisites of a RequisitesNode, states), reqs
\* StateCallNode.requisites, includes and extend those of the Tree (0: None),
\* parent 0 for None.
NewNode(k, p) ==
    [kind |-> k, start |-> NoPos, end |-> NoPos, parent |-> p, name |-> NoStr,
     ref |-> NoStr, value |-> NoValue, kids |-> << >>, reqs |-> << >>,
     includes |-> 0, extend |-> 0, token |-> NoToken]

\* TokenNode.__init__
NewTokenNode(t) ==
    [NewNode("TokenNode", 0) EXCEPT !.start = t.start, !.end = t.end, !.token = t]

\* The classes derived from AstMapNode.
MapKinds == {"Tree", "ExtendNode", "StateNode", "StateCallNode", "RequisitesNode"}

\* The classes that define set_key.
SetKeyKinds == {"StateParameterNode", "RequisiteNode", "RequisitesNode", "StateCallNode", "StateNode"}

RequisitesKeys == {"require", "onchanges", "watch", "listen", "prereq", "onfail", "use"}

\* all_requisites_keys of StateParameterNode.set_key
AllRequisitesKeys ==
    RequisitesKeys \cup { k \o "_any" : k \in RequisitesKeys } \cup { k \o "_in" : k \in RequisitesKeys }

\* The fields Python's == compares on two nodes, but for the nodes they hold:
\* the class and every field of the dataclass except parent; for a TokenNode
\* (TokenNode.__eq__) the token's class, its text when it is a scalar, and the
\* span.
ShallowEq(x, y) ==
    /\ x.kind = y.kind
    /\ x.start = y.start
    /\ x.end = y.end
    /\ x.token.kind = y.token.kind
    /\ (x.token.kind = "Scalar" => x.token.value = y.token.value)
    /\ x.name = y.name
    /\ x.ref = y.ref
    /\ x.value.tag = y.value.tag
    /\ x.value.text = y.value.text
    /\ Len(x.value.toks) = Len(y.value.toks)
    /\ Len(x.kids) = Len(y.kids)
    /\ Len(x.reqs) = Len(y.reqs)

\* The nodes a node holds (0: None).
Held(x) == x.value.toks \o x.kids \o x.reqs \o << x.includes, x.extend >>

\* Python's == on two nodes of the arena ns: the dataclasses' generated
\* __eq__, which compares the lists member by member.
RECURSIVE NodeEq(_, _, _)
NodeEq(ns, a, b) ==
    \/ a = b
    \/ /\ a # 0 /\ b # 0
       /\ ShallowEq(ns[a], ns[b])
       /\ \A i \in 1..Len(Held(ns[a])) : NodeEq(ns, Held(ns[a])[i], Held(ns[b])[i])

\* list.index(x): the place of the first member equal to x, Len(list) + 1
\* when there is none.
ListIndex(ns, list, x) ==
    CHOOSE i \in 1..(Len(list) + 1) :
        /\ i = Len(list) + 1 \/ NodeEq(ns, list[i], x)
        /\ \A j \in 1..(i - 1) : ~NodeEq(ns, list[j], x)

\* The list without its member at place i.
RemoveAt(list, i) ==
    IF i > Len(list) THEN list
    ELSE SubSeq(list, 1, i - 1) \o SubSeq(list, i + 1, Len(list))

\* list.remove(x): the list without its first member equal to x.
ListRemove(ns, list, x) == RemoveAt(list, ListIndex(ns, list, x))

\* ------------------------------------------------------------ the parser

\* Parser.__init__: the fields of a Parser, with exc the exception a step
\* raised ("none": none) and ret set once _process_token has returned.
NewParser ==
    [nodes |-> << NewNode("Tree", 0) >>, bc |-> << 1 >>, bs |-> << >>,
     nsak |-> FALSE, ntiv |-> FALSE, capture |-> FALSE, unp |-> << >>,
     last_start |-> NoPos, exc |-> "none", ret |-> FALSE]

Top(s) == s.bc[Len(s.bc)]

TopKind(s) == s.nodes[Top(s)].kind

Raise(s, e) == [s EXCEPT !.exc = e]

\* Whether a rule of _process_token is still to be run.
Live(s) == s.exc = "none" /\ ~s.ret

\* The add() of the classes that have one: a new child, appended to the
\* parent's list.  The new node is the last of the arena.
Children(k) ==
    CASE k = "Tree" -> "StateNode"
      [] k = "ExtendNode" -> "StateNode"
      [] k = "StateNode" -> "StateCallNode"
      [] k = "StateCallNode" -> "StateParameterNode"
      [] k = "RequisitesNode" -> "RequisiteNode"
      [] k = "IncludesNode" -> "IncludeNode"

\* IncludesNode.add builds IncludeNode() with no parent.
AddParent(k, p) == IF k = "IncludesNode" THEN 0 ELSE p

Add(s, p) ==
    LET child == NewNode(Children(s.nodes[p].kind), AddParent(s.nodes[p].kind, p))
        id == Len(s.nodes) + 1
    IN [s EXCEPT !.nodes = Append([@ EXCEPT ![p].kids = Append(@, id)], child)]

Newest(s) == Len(s.nodes)

\* A convert that leaves the parameter in parameters.
StateCallConvert_KeepsParameter(s, call, param, name) ==
    [s EXCEPT !.nodes = Append([@ EXCEPT ![call].reqs = Append(@, Len(s.nodes) + 1)],
                               [NewNode("RequisitesNode", call) EXCEPT
                                    !.name = name, !.start = s.nodes[param].start])]

\* StateCallNode.convert: the parameter leaves parameters, a RequisitesNode of
\* that kind, starting where the parameter starts, joins requisites.
ConvertStart(s, param) == s.nodes[param].start

StateCallConvert(s, call, param, name) ==
    LET id == Len(s.nodes) + 1
        node == [NewNode("RequisitesNode", call) EXCEPT !.name = name, !.start = ConvertStart(s, param)]
    IN [s EXCEPT !.nodes = Append([@ EXCEPT ![call].kids = ListRemove(s.nodes, @, param),
                                            ![call].reqs = Append(@, id)], node)]

\* A convert that leaves the state in states.
TreeConvert_KeepsState(s, tree, state, name) ==
    [s EXCEPT !.nodes = Append([@ EXCEPT ![tree].includes = IF name = "include" THEN Len(s.nodes) + 1 ELSE @,
                                         ![tree].extend = IF name = "extend" THEN Len(s.nodes) + 1 ELSE @],
                               [NewNode(IF name = "include" THEN "IncludesNode" ELSE "ExtendNode", tree)
                                    EXCEPT !.start = s.nodes[state].start])]

\* Tree.convert: the state leaves states, an IncludesNode or ExtendNode
\* starting where the state starts becomes the tree's includes or extend.
TreeConvert(s, tree, state, name) ==
    LET id == Len(s.nodes) + 1
        kind == IF name = "include" THEN "IncludesNode" ELSE "ExtendNode"
        node == [NewNode(kind, tree) EXCEPT !.start = s.nodes[state].start]
    IN [s EXCEPT !.nodes = Append([@ EXCEPT ![tree].kids = ListRemove(s.nodes, @, state),
                                            ![tree].includes = IF name = "include" THEN id ELSE @,
                                            ![tree].extend = IF name = "extend" THEN id ELSE @], node)]

\* Whether set_key(key) on node n hands the key to the parent's convert.
Converts(s, n, key) ==
    LET nd == s.nodes[n]
    IN /\ nd.parent # 0
       /\ \/ nd.kind = "StateParameterNode" /\ key \in AllRequisitesKeys
                /\ s.nodes[nd.parent].kind = "StateCallNode"
          \/ nd.kind = "StateNode" /\ key \in {"include", "extend"}
                /\ s.nodes[nd.parent].kind = "Tree"

\* set_key of StateParameterNode, RequisiteNode, RequisitesNode, StateCallNode
\* and StateNode: the parser after it.
SetKey(s, n, key) ==
    IF Converts(s, n, key)
    THEN IF ListIndex(s.nodes, s.nodes[s.nodes[n].parent].kids, n)
                > Len(s.nodes[s.nodes[n].parent].kids)
         THEN Raise(s, "ValueError")
         ELSE IF s.nodes[n].kind = "StateParameterNode"
              THEN StateCallConvert(s, s.nodes[n].parent, n, key)
              ELSE TreeConvert(s, s.nodes[n].parent, n, key)
    ELSE [s EXCEPT !.nodes[n].name = key]

\* The node set_key(key) on n returns, SetKey(s, n, key) being done.
SetKeyResult(s, n, key) == IF Converts(s, n, key) THEN Len(s.nodes) + 1 ELSE n

\* ---- the rules of Parser._process_token, in the order of the code

\* Stream start and end: the span of the tree.
RuleStream(s, t) ==
    CASE t.kind = "StreamStart" -> [s EXCEPT !.nodes[1].start = t.start]
      [] t.kind = "StreamEnd" -> [s EXCEPT !.nodes[1].end = t.end]
      [] OTHER -> s

\* A block or flow collection starts: remember the node it starts under.
RuleBlockStart(s, t) ==
    IF ~Live(s) \/ t.kind \notin StartKinds THEN s
    ELSE IF s.bc = << >> THEN Raise(s, "IndexError")
    ELSE [s EXCEPT !.bs = Append(@, [token |-> t, node |-> Top(s)]), !.ntiv = FALSE]

\* A value marker: under a parameter it starts the capture of raw tokens.
RuleValue(s, t) ==
    IF ~Live(s) \/ t.kind # "Value" THEN s
    ELSE IF s.bc = << >> THEN Raise([s EXCEPT !.ntiv = TRUE], "IndexError")
    ELSE IF TopKind(s) = "StateParameterNode" /\ (~s.capture \/ s.unp = << >>)
         THEN [s EXCEPT !.ntiv = TRUE, !.capture = TRUE, !.unp = << >>, !.ret = TRUE]
         ELSE [s EXCEPT !.ntiv = TRUE]

\* Whether the capture takes the token: all but the block end that closes the
\* parameter on top of the breadcrumbs.
Captured(s, t) == TopKind(s) # "StateParameterNode" \/ t.kind # "BlockEnd"

\* During the capture: the token joins unprocessed_tokens as a TokenNode, a
\* collection start also the breadcrumbs.
RuleCapture(s, t) ==
    IF ~Live(s) \/ ~s.capture THEN s
    ELSE IF s.bc = << >> THEN Raise(s, "IndexError")
    ELSE LET id == Len(s.nodes) + 1
             s1 == IF Captured(s, t)
                   THEN [s EXCEPT !.nodes = Append(@, NewTokenNode(t)), !.unp = Append(@, id)]
                   ELSE s
         IN IF t.kind \in StartKinds
            THEN [s1 EXCEPT !.bc = Append(@, Last(s1.unp)), !.ntiv = FALSE]
            ELSE s1

\* A popping that stops with the node of the block start on top.
PopUntil_LeavesTarget(s, closed, target, pos) ==
    [s EXCEPT !.bc = SelectSeq(@, LAMBDA n : \E i \in 1..Len(s.bc) :
                                   /\ s.bc[i] = n
                                   /\ \E j \in i..Len(s.bc) : s.bc[j] = target)]

\* "pop breadcrumbs until we match the block starts": closed is the node
\* popped last, target the node of the block start, pos the token's end.
RECURSIVE PopUntil(_, _, _, _)
PopUntil(s, closed, target, pos) ==
    IF Len(s.bc) > 0 /\ ~NodeEq(s.nodes, closed, target)
    THEN PopUntil([s EXCEPT !.bc = Front(@), !.nodes[Top(s)].end = pos], Top(s), target, pos)
    ELSE s

\* A sealing that never unwraps the one scalar.
CapturedValue_AlwaysList(s) == TokensValue(s.unp)

\* The value a parameter gets from the captured tokens.
CapturedValue(s) ==
    IF Len(s.unp) = 1 /\ s.nodes[s.unp[1]].token.kind = "Scalar"
    THEN StrValue(s.nodes[s.unp[1]].token.value)
    ELSE TokensValue(s.unp)

\* The parameter last is sealed while the capture runs: it gets its value, the
\* TokenNodes of a list value get it as parent, the capture ends.
SealParameter(s, last) ==
    LET v == CapturedValue(s)
    IN [s EXCEPT !.nodes = [i \in 1..Len(s.nodes) |->
                              IF i = last THEN [s.nodes[i] EXCEPT !.value = v]
                              ELSE IF v.tag = "tokens" /\ \E j \in 1..Len(s.unp) : s.unp[j] = i
                                   THEN [s.nodes[i] EXCEPT !.parent = last]
                                   ELSE s.nodes[i]],
                 !.capture = FALSE, !.unp = << >>]

\* "if not isinstance(last, TokenNode): last.end = ..."
EndLast(s, last, t) ==
    IF s.nodes[last].kind # "TokenNode" THEN [s EXCEPT !.nodes[last].end = t.end] ELSE s

\* The breadcrumbs and block starts after a collection's end: the last block
\* start and the top node popped, the nodes down to that of the block start
\* closed.
EndBlock(s, t) ==
    EndLast(PopUntil([s EXCEPT !.bs = Front(@), !.bc = Front(@)], Top(s), Last(s.bs).node, t.end),
            Top(s), t)

\* An end rule that, with no block start, closes the node on top.
RuleEnd_ClosesTop(s, t) ==
    IF ~Live(s) \/ t.kind \notin EndKinds THEN s
    ELSE IF Len(s.bc) = 0 THEN [s EXCEPT !.ret = TRUE]
    ELSE IF Len(s.bs) = 0
         THEN [s EXCEPT !.bc = Front(@), !.nodes[Top(s)].end = t.end, !.ret = TRUE]
    ELSE IF TopKind(s) = "StateParameterNode" /\ s.capture
         THEN SealParameter(EndBlock(s, t), Top(s))
         ELSE EndBlock(s, t)

\* A block or flow collection ends.
RuleEnd(s, t) ==
    IF ~Live(s) \/ t.kind \notin EndKinds THEN s
    ELSE IF Len(s.bs) = 0 \/ Len(s.bc) = 0 THEN [s EXCEPT !.ret = TRUE]
    ELSE IF TopKind(s) = "StateParameterNode" /\ s.capture
         THEN SealParameter(EndBlock(s, t), Top(s))
         ELSE EndBlock(s, t)

\* Still capturing: the token is no Salt data, the rules below are skipped.
RuleCapturing(s, t) ==
    IF ~Live(s) \/ ~s.capture THEN s
    ELSE [s EXCEPT !.ntiv = FALSE, !.ret = TRUE]

\* The start of the node a key token creates.
KeyStart(s, t) == IF s.last_start # NoPos THEN s.last_start ELSE t.start

\* A key marker: a mapping node on top gets a new child, which is pushed.
RuleKey(s, t) ==
    IF ~Live(s) \/ t.kind # "Key" THEN s
    ELSE IF s.bc = << >> THEN Raise([s EXCEPT !.nsak = TRUE], "IndexError")
    ELSE IF TopKind(s) \in MapKinds
         THEN LET s1 == Add(s, Top(s))
              IN [s1 EXCEPT !.nsak = TRUE, !.bc = Append(@, Newest(s1)),
                            !.nodes[Newest(s1)].start = KeyStart(s, t), !.last_start = NoPos]
         ELSE [s EXCEPT !.nsak = TRUE]

\* same_level of the list entry rule.
SameLevel(s, t) ==
    /\ Len(s.bc) > 0
    /\ s.nodes[Top(s)].start # NoPos
    /\ s.nodes[Top(s)].start.col = t.start.col

\* The classes a list entry adds a child to.
EntryKinds == {"StateCallNode", "IncludesNode", "RequisitesNode"}

\* A list entry rule that leaves the entry before this one open.
EntryClose_KeepsOpen(s, t) == s

\* The entry before this one, at the same column, is closed.
EntryClose(s, t) ==
    IF SameLevel(s, t) THEN [s EXCEPT !.bc = Front(@), !.nodes[Top(s)].end = t.start] ELSE s

\* A push that gives the new node no start.
EntryPush_Unstarted(s, t) == [s EXCEPT !.bc = Append(@, Newest(s))]

\* The node just added is pushed, starting at the token.
EntryPush(s, t) ==
    [s EXCEPT !.bc = Append(@, Newest(s)), !.nodes[Newest(s)].start = t.start]

\* A state call, includes or requisites node on top gets a new child.
EntryAdd(s, t) ==
    IF s.bc = << >> THEN Raise(s, "IndexError")
    ELSE IF TopKind(s) \in EntryKinds THEN EntryPush(Add(s, Top(s)), t)
    ELSE s

\* A list entry marker.
RuleBlockEntry(s, t) ==
    IF ~Live(s) \/ t.kind # "BlockEntry" THEN s ELSE EntryAdd(EntryClose(s, t), t)

\* A replacement in the breadcrumbs alone.
ReplaceTop_BreadcrumbsOnly(s, old, changed) ==
    IF s.exc # "none" THEN s
    ELSE [s EXCEPT !.bc = Append(Front(@), changed), !.nsak = FALSE]

\* "if changed != self._breadcrumbs[-1]": the node set_key returned takes
\* the place of the old one in the breadcrumbs and in the block starts.
ReplaceTop(s, old, changed) ==
    IF s.exc # "none" THEN s
    ELSE IF ~NodeEq(s.nodes, changed, old)
         THEN [s EXCEPT !.bc = Append(Front(@), changed),
                        !.bs = [i \in 1..Len(@) |->
                                  IF NodeEq(s.nodes, @[i].node, old)
                                  THEN [@[i] EXCEPT !.node = changed]
                                  ELSE @[i]],
                        !.nsak = FALSE]
         ELSE [s EXCEPT !.nsak = FALSE]

\* A scalar taken as a key: set_key on the top node.
ScalarAsKey(s, t) ==
    IF s.bc = << >> THEN Raise(s, "IndexError")
    ELSE IF TopKind(s) \notin SetKeyKinds THEN Raise(s, "AttributeError")
    ELSE ReplaceTop(SetKey(s, Top(s), t.value), Top(s), SetKeyResult(s, Top(s), t.value))

\* A scalar that is no key, on an IncludeNode: its value; the node is closed.
ScalarInclude(s, t) ==
    IF s.exc # "none" THEN s
    ELSE IF s.bc = << >> THEN Raise(s, "IndexError")
    ELSE IF TopKind(s) = "IncludeNode"
         THEN [s EXCEPT !.nodes[Top(s)].name = t.value, !.nodes[Top(s)].end = t.end, !.bc = Front(@)]
         ELSE s

\* ... on a RequisiteNode: its reference.
ScalarRequisite(s, t) ==
    IF s.exc # "none" THEN s
    ELSE IF s.bc = << >> THEN Raise(s, "IndexError")
    ELSE IF TopKind(s) = "RequisiteNode"
         THEN [s EXCEPT !.nodes[Top(s)].ref = t.value]
         ELSE s

\* ... on a StateParameterNode without a name: its name ("the user hasn't
\* typed the ':' yet").
ScalarParameter(s, t) ==
    IF s.exc # "none" THEN s
    ELSE IF s.bc = << >> THEN Raise(s, "IndexError")
    ELSE IF TopKind(s) = "StateParameterNode" /\ s.nodes[Top(s)].name = NoStr
         THEN [s EXCEPT !.nodes[Top(s)].name = t.value]
         ELSE s

\* The new node with the scalar's marks swapped.
ChildNamed_Swapped(s, t) ==
    SetKey([s EXCEPT !.nodes[Newest(s)].start = t.end, !.nodes[Newest(s)].end = t.start],
           Newest(s), t.value)

\* The node just added spans the scalar and is named by it (set_key).
ChildNamed(s, t) ==
    SetKey([s EXCEPT !.nodes[Newest(s)].start = t.start, !.nodes[Newest(s)].end = t.end],
           Newest(s), t.value)

\* "if self._next_token_is_value": the scalar was the plain value of the key
\* before it, the top node is popped and, if still open, ends with the scalar.
ValuePop(s, t) ==
    IF s.exc = "none" /\ s.ntiv
    THEN [s EXCEPT !.bc = Front(@), !.nodes[Top(s)].end = IF @ = NoPos THEN t.end ELSE @]
    ELSE s

\* A scalar rule that leaves the new child, which has its end, on the
\* breadcrumbs.
ScalarChild_Pushed(s, t) ==
    IF s.exc # "none" THEN s
    ELSE IF s.bc = << >> THEN Raise(s, "IndexError")
    ELSE IF TopKind(s) \in {"StateNode", "Tree"}
         THEN [ChildNamed(Add(s, Top(s)), t) EXCEPT !.bc = Append(@, Len(s.nodes) + 1)]
         ELSE s

\* ... on a StateNode or the Tree: a new child named by the scalar.
ScalarChild(s, t) ==
    IF s.exc # "none" THEN s
    ELSE IF s.bc = << >> THEN Raise(s, "IndexError")
    ELSE IF TopKind(s) \in {"StateNode", "Tree"} THEN ValuePop(ChildNamed(Add(s, Top(s)), t), t)
    ELSE s

\* "self._next_token_is_value = False", the last statement of the scalar rule.
ScalarDone(s) == IF s.exc # "none" THEN s ELSE [s EXCEPT !.ntiv = FALSE]

\* A scalar.
RuleScalar(s, t) ==
    IF ~Live(s) \/ t.kind # "Scalar" THEN s
    ELSE IF s.nsak THEN ScalarDone(ScalarAsKey(s, t))
    ELSE ScalarDone(ScalarChild(ScalarParameter(ScalarRequisite(ScalarInclude(s, t), t), t), t))

\* Parser._process_token
ProcessToken(s, t) ==
    RuleScalar(RuleBlockEntry(RuleKey(RuleCapturing(RuleEnd(RuleCapture(RuleValue(
        RuleBlockStart(RuleStream([s EXCEPT !.ret = FALSE], t), t), t), t), t), t), t), t), t)

\* ------------------------------------------------------------ the path resolver

\* get_children of the classes derived from AstMapNode; the other classes
\* have AstNode.visit, which goes to no child.
GetChildren(ns, n) ==
    CASE ns[n].kind = "Tree" ->
             (IF ns[n].includes # 0 THEN << ns[n].includes >> ELSE << >>)
             \o (IF ns[n].extend # 0 THEN << ns[n].extend >> ELSE << >>)
             \o ns[n].kids
      [] ns[n].kind \in {"ExtendNode", "StateNode", "RequisitesNode"} -> ns[n].kids
      [] ns[n].kind = "StateCallNode" -> ns[n].kids \o ns[n].reqs
      [] OTHER -> << >>

\* The nodes AstMapNode.visit calls the visitor on, in the order of the calls,
\* the visitor returning True: todo holds the nodes still to be visited.
RECURSIVE Visit(_, _)
Visit(ns, todo) ==
    IF todo = << >> THEN << >>
    ELSE << Head(todo) >> \o Visit(ns, GetChildren(ns, Head(todo)) \o Tail(todo))

\* A visit that goes on below a node whatever the visitor returned on it.
VisitCalls_Unconditional(ns, todo, yes) == Visit(ns, todo)

\* AstMapNode.visit and AstNode.visit: the nodes the visitor is called on, in
\* the order of the calls, the visitor returning True on the nodes of yes and
\* False on the others; todo holds the nodes still to be visited.
RECURSIVE VisitCalls(_, _, _)
VisitCalls(ns, todo, yes) ==
    IF todo = << >> THEN << >>
    ELSE << Head(todo) >>
         \o VisitCalls(ns, (IF Head(todo) \in yes THEN GetChildren(ns, Head(todo)) ELSE << >>)
                            \o Tail(todo), yes)

\* A visitor that excludes the end.
Covers_EndExclusive(nd, p) == PosLe(nd.start, p) /\ (nd.end = NoPos \/ PosLt(p, nd.end))

\* The condition of the visitor of construct_path_to_position.
Covers(nd, p) == PosLe(nd.start, p) /\ (nd.end = NoPos \/ PosLe(p, nd.end))

\* A visitor that keeps the first node that covers p.
FoundIn_First(ns, order, p) ==
    IF \A i \in 1..Len(order) : ~Covers(ns[order[i]], p) THEN 0
    ELSE order[CHOOSE i \in 1..Len(order) :
                  /\ Covers(ns[order[i]], p)
                  /\ \A j \in 1..(i - 1) : ~Covers(ns[order[j]], p)]

\* found_node: the node visited last among those that cover p (0: None).
FoundIn(ns, order, p) ==
    IF \A i \in 1..Len(order) : ~Covers(ns[order[i]], p) THEN 0
    ELSE order[CHOOSE i \in 1..Len(order) :
                  /\ Covers(ns[order[i]], p)
                  /\ \A j \in (i + 1)..Len(order) : ~Covers(ns[order[j]], p)]

\* A path of the node found alone.
Context_FoundOnly(ns, n) == IF n = 0 THEN << >> ELSE << n >>

\* "while node: context.insert(0, node); node = node.parent"
RECURSIVE Context(_, _)
Context(ns, n) == IF n = 0 THEN << >> ELSE Append(Context(ns, ns[n].parent), n)

\* "node.start <= parser_pos" with a start that is None: neither class orders
\* the two, Python raises TypeError.
PathRaises(ns, order) == \E i \in 1..Len(order) : ns[order[i]].start = NoPos

\* construct_path_to_position(tree, pos), the nodes of the tree being visited
\* in this order.
ConstructPath(ns, order, p) ==
    IF PathRaises(ns, order) THEN << >> ELSE Context(ns, FoundIn(ns, order, p))

\* ------------------------------------------------------------ the file of an include

\* str.split("."): the parts of cs between its dots, cur being the part read so far.
RECURSIVE Split(_, _)
Split(cs, cur) ==
    IF cs = << >> THEN << cur >>
    ELSE IF Head(cs) = "." THEN << cur >> \o Split(Tail(cs), << >>)
         ELSE Split(Tail(cs), Append(cur, Head(cs)))

\* The value of an IncludeNode that has none (None).
Absent == << NoStr >>

\* os.path.join(a, b), paths being lists of characters ("init.sls" and ".sls"
\* standing as one character each): b alone when it is absolute.
Join(a, b) ==
    IF b # << >> /\ Head(b) = "/" THEN b
    ELSE IF a = << >> \/ Last(a) = "/" THEN a \o b
    ELSE a \o << "/" >> \o b

\* os.path.join(*parts).
RECURSIVE JoinAll(_)
JoinAll(parts) == IF Len(parts) = 1 THEN parts[1] ELSE Join(JoinAll(Front(parts)), Last(parts))

\* os.path.dirname of a normalised absolute path.
RECURSIVE Dirname(_)
Dirname(cs) ==
    IF Last(cs) # "/" THEN Dirname(Front(cs))
    ELSE IF Len(cs) = 1 THEN cs ELSE Front(cs)

\* The file a path names: its components, empty ones dropped, cur being the
\* component read so far.
RECURSIVE Norm(_, _)
Norm(cs, cur) ==
    IF cs = << >> THEN (IF cur = << >> THEN << >> ELSE << cur >>)
    ELSE IF Head(cs) = "/"
         THEN (IF cur = << >> THEN << >> ELSE << cur >>) \o Norm(Tail(cs), << >>)
         ELSE Norm(Tail(cs), Append(cur, Head(cs)))

\* os.path.exists(path), files being the files there are.
Exists(files, path) == Norm(path, << >>) \in files

\* The result of get_file: a path, or None.
File(path) == [found |-> TRUE, path |-> path]

NoFile == [found |-> FALSE, path |-> << >>]

\* IncludeNode.get_file, dir being the top_path it settles on: dest is
\* join(*value.split(".")), init_sls_path join(top_path, dest, "init.sls"),
\* entry_sls_path join(top_path, dest + ".sls").
GetFile(value, dir, files) ==
    IF value = Absent THEN NoFile
    ELSE IF Exists(files, JoinAll(<< dir, JoinAll(Split(value, << >>)), << "init.sls" >> >>))
         THEN File(JoinAll(<< dir, JoinAll(Split(value, << >>)), << "init.sls" >> >>))
    ELSE IF Exists(files, Join(dir, JoinAll(Split(value, << >>)) \o << ".sls" >>))
         THEN File(Join(dir, JoinAll(Split(value, << >>)) \o << ".sls" >>))
    ELSE NoFile

\* abs_top_path if isdir(abs_top_path) else dirname(abs_top_path).
TopDir(abs_top_path, isdir) == IF isdir THEN abs_top_path ELSE Dirname(abs_top_path)

\* The values of at most n characters: names, dots and path separators.
RECURSIVE IncludeValues(_)
IncludeValues(n) ==
    IF n = 0 THEN { << >> }
    ELSE IncludeValues(n - 1)
         \cup { Append(cs, c) : cs \in IncludeValues(n - 1), c \in { "a", ".", "/" } }

\* The top paths: the states folder, and a file in it.
TopPaths == { << "/", "r" >>, << "/", "r", "/", "t" >> }

\* value with every dot replaced by a path separator.
RECURSIVE Dotless(_)
Dotless(cs) ==
    IF cs = << >> THEN << >>
    ELSE << (IF Head(cs) = "." THEN "/" ELSE Head(cs)) >> \o Dotless(Tail(cs))

\* The files get_file may look for, given the value and the directory.
Sought(value, dir) ==
    IF value = Absent THEN { }
    ELSE { Norm(JoinAll(<< dir, JoinAll(Split(value, << >>)), << "init.sls" >> >>), << >>),
           Norm(Join(dir, JoinAll(Split(value, << >>)) \o << ".sls" >>), << >>),
           Norm(dir \o << "/" >> \o Dotless(value) \o << "/", "init.sls" >>, << >>),
           Norm(dir \o << "/" >> \o Dotless(value) \o << ".sls" >>, << >>) }

\* ------------------------------------------------------------ the URIs

\* cs[m-1:n] of Python: the characters of cs from the m-th to the n-th, as
\* far as there are any.
Slice(cs, m, n) ==
    IF m > n \/ m > Len(cs) THEN << >>
    ELSE [k \in 1..((IF n > Len(cs) THEN Len(cs) ELSE n) - m + 1) |-> cs[k + m - 1]]

\* The first index from i on at which cs holds a character of set, Len(cs) + 1
\* if there is none.
RECURSIVE FirstOf(_, _, _)
FirstOf(cs, set, i) ==
    IF i > Len(cs) THEN Len(cs) + 1 ELSE IF cs[i] \in set THEN i ELSE FirstOf(cs, set, i + 1)

\* The characters a scheme is made of ("file" and "http" standing as one
\* character each).
SchemeChars == { "a", "file", "http" }

\* The rest of a URL after its scheme: netloc, path and fragment.
SplitRest(scheme, rest, d) ==
    [scheme |-> scheme,
     netloc |-> IF d > 0 THEN Slice(rest, 3, d - 1) ELSE << >>,
     path |-> Slice(rest, IF d > 0 THEN d ELSE 1,
                     FirstOf(rest, { "#" }, IF d > 0 THEN d ELSE 1) - 1),
     fragment |-> Slice(rest, FirstOf(rest, { "#" }, IF d > 0 THEN d ELSE 1) + 1, Len(rest))]

\* The rest of a URL after its scheme, its netloc found after a leading "//".
SplitNetloc(scheme, rest) ==
    SplitRest(scheme, rest,
              IF Len(rest) >= 2 /\ rest[1] = "/" /\ rest[2] = "/"
              THEN FirstOf(rest, { "/", "#" }, 3) ELSE 0)

\* urllib.parse.urlparse(url): the scheme is what stands before the first
\* colon if it is made of scheme characters.
Urlparse(url) ==
    IF FirstOf(url, { ":" }, 1) \in 2..Len(url)
          /\ \A k \in 1..(FirstOf(url, { ":" }, 1) - 1) : url[k] \in SchemeChars
    THEN SplitNetloc(Slice(url, 1, FirstOf(url, { ":" }, 1) - 1),
                     Slice(url, FirstOf(url, { ":" }, 1) + 1, Len(url)))
    ELSE SplitNetloc(<< >>, url)

\* ParseResult.geturl(), of a result with a scheme that uses a netloc.
Geturl(r) ==
    (IF r.scheme # << >> THEN r.scheme \o << ":" >> ELSE << >>)
    \o (IF r.netloc # << >> \/ (r.scheme # << >> /\ Slice(r.path, 1, 2) # << "/", "/" >>)
        THEN << "/", "/" >> \o r.netloc
             \o (IF r.path # << >> /\ Head(r.path) # "/" THEN << "/" >> ELSE << >>)
        ELSE << >>)
    \o r.path
    \o (IF r.fragment # << >> THEN << "#" >> \o r.fragment ELSE << >>)

\* FileUri.__init__ on the parse result of a string: ok is False where it
\* raises ValueError.
FileUri(r) ==
    IF r.scheme \notin { << >>, << "file" >> } THEN [ok |-> FALSE, res |-> r]
    ELSE IF r.scheme = << >>
         THEN [ok |-> TRUE, res |-> Urlparse(<< "file", ":", "/", "/" >> \o r.path)]
         ELSE [ok |-> TRUE, res |-> r]

\* The forms of a key: a path, the URI of the path, and the FileUri objects
\* made from them.
KeyForms == { "path", "uri", "FileUri(path)", "FileUri(uri)" }

\* The string a key of form f for path p is made from.
KeyString(f, p) ==
    IF f \in { "uri", "FileUri(uri)" } THEN << "file", ":", "/", "/" >> \o p ELSE p

\* UriDict._key_gen(key): str(FileUri(key)); a FileUri object hands over the
\* parse result it was made with.
KeyGen(url) ==
    [ok |-> FileUri(Urlparse(url)).ok, key |-> Geturl(FileUri(Urlparse(url)).res)]

\* The paths of at most n characters: absolute, without empty parts, made of
\* the characters of ab.
RECURSIVE PathsOf(_, _)
PathsOf(n, ab) ==
    IF n = 1 THEN { << "/" >> }
    ELSE PathsOf(n - 1, ab)
         \cup { Append(p, c) : p \in { q \in PathsOf(n - 1, ab) : Len(q) = n - 1 }, c \in ab }

Paths == PathsOf(MaxPath, { "a", "#" })

\* URIs of other schemes.
ForeignUris == { << "http", ":", "/", "/", "a" >>, << "a", ":", "/", "a" >> }

\* ------------------------------------------------------------ the Jinja parser

\* A node of jinja_parser as its constructor leaves it: kind is the class,
\* block BlockNode.kind, kids the branches of a BlockNode and the body of a
\* BranchNode; by tells how a BlockNode was closed ("token" or "end").
JinjaNode(kind, start, end) ==
    [kind |-> kind, start |-> start, end |-> end, block |-> NoStr, expression_end |-> NoPos,
     block_end_start |-> NoPos, kids |-> << >>, parent |-> 0, by |-> "none"]

\* BranchNode.from_token(start_token)
BranchFromToken(t) == [JinjaNode("BranchNode", t.start, NoPos) EXCEPT !.expression_end = t.end]

\* parse's tree and breadcrumbs before the first token.
JinjaStart == [ns |-> << JinjaNode("BranchNode", Pos(0, 0), NoPos) >>, bc |-> << 1 >>, exc |-> "none"]

\* BlockNode.add and BranchNode.add: node joins the children of the top of
\* the breadcrumbs; a BlockNode takes BranchNodes only.
JinjaAdd(s, node) ==
    IF s.ns[Last(s.bc)].kind = "BlockNode" /\ node.kind # "BranchNode"
    THEN [s EXCEPT !.exc = "AssertionError"]
    ELSE [s EXCEPT !.ns = Append([@ EXCEPT ![Last(s.bc)].kids = Append(@, Len(s.ns) + 1)],
                                 [node EXCEPT !.parent = Last(s.bc)])]

\* BranchNode.close()
BranchClose(ns, n) ==
    [ns EXCEPT ![n].end = IF ns[n].kids # << >> THEN ns[Last(ns[n].kids)].end
                          ELSE IF ns[n].expression_end # NoPos THEN ns[n].expression_end
                          ELSE ns[n].start,
               ![n].expression_end =
                   IF ns[n].expression_end # NoPos THEN ns[n].expression_end
                   ELSE IF ns[n].kids # << >> THEN ns[Last(ns[n].kids)].end
                   ELSE ns[n].start]

\* BlockNode.close(end_token)
BlockCloseAt(ns, n, t) ==
    [ns EXCEPT ![n].block_end_start = t.start, ![n].end = t.end, ![n].by = "token"]

\* BlockNode.close()
BlockClose(ns, n) ==
    [ns EXCEPT ![n].end = IF ns[n].kids # << >> THEN ns[Last(ns[n].kids)].end ELSE ns[n].start,
               ![n].block_end_start =
                   IF ns[n].kids # << >> THEN ns[Last(ns[n].kids)].end ELSE ns[n].start,
               ![n].by = "end"]

\* An "if" or "for" token: BlockNode.from_token, added to the top of the
\* breadcrumbs, the block and its default branch pushed.
JinjaOpen(s, t) ==
    IF s.ns[Last(s.bc)].kind = "BlockNode" THEN [s EXCEPT !.exc = "AssertionError"]
    ELSE [ns |-> Append(JinjaAdd(s, [JinjaNode("BlockNode", t.start, NoPos)
                                        EXCEPT !.block = t.kind, !.kids = << Len(s.ns) + 2 >>]).ns,
                        BranchFromToken(t)),
          bc |-> s.bc \o << Len(s.ns) + 1, Len(s.ns) + 2 >>,
          exc |-> "none"]

\* The branch on top of the breadcrumbs is closed and popped.
JinjaPopBranch(s) ==
    IF s.ns[Last(s.bc)].kind = "BranchNode"
    THEN [s EXCEPT !.ns = BranchClose(s.ns, Last(s.bc)), !.bc = Front(@)]
    ELSE s

\* "else" and "elif": a new branch is added to the top and pushed.
JinjaBranch(s, t) ==
    [JinjaAdd(s, BranchFromToken(t)) EXCEPT !.bc = Append(@, Len(s.ns) + 1)]

\* "endif" and "endfor": the block on top is closed if the token ends its kind.
JinjaEnd(s, t) ==
    IF Len(s.bc) > 1 /\ s.ns[Last(s.bc)].kind = "BlockNode"
          /\ "end" \o s.ns[Last(s.bc)].block = t.kind
    THEN [s EXCEPT !.ns = BlockCloseAt(s.ns, Last(s.bc), t), !.bc = Front(@)]
    ELSE s

\* The order the nodes left on the breadcrumbs are closed in, from the first.
CloseOrder_Forward(bc) == bc

\* reversed(breadcrumbs)
CloseOrder(bc) == [i \in 1..Len(bc) |-> bc[Len(bc) + 1 - i]]

\* "for node in reversed(breadcrumbs): node.close()"
RECURSIVE CloseAll(_, _)
CloseAll(ns, list) ==
    IF list = << >> THEN ns
    ELSE CloseAll(IF ns[Head(list)].kind = "BlockNode" THEN BlockClose(ns, Head(list))
                  ELSE BranchClose(ns, Head(list)),
                  Tail(list))

\* The kinds of the tokens: blocks, and data, variable and comment tokens.
BlockKinds == { "if", "for", "endif", "endfor", "else", "elif", "set" }

TokenKinds == BlockKinds \cup { "data", "variable", "comment" }

\* One turn of parse's loop on token t.
JinjaToken(s, t) ==
    IF t.kind \in { "if", "for" } THEN JinjaOpen(s, t)
    ELSE IF t.kind \in { "endif", "endfor", "else", "elif" }
         THEN IF Len(s.bc) <= 1 THEN s
              ELSE IF t.kind \in { "else", "elif" } THEN JinjaBranch(JinjaPopBranch(s), t)
              ELSE JinjaEnd(JinjaPopBranch(s), t)
    ELSE IF t.kind = "data" THEN JinjaAdd(s, JinjaNode("DataNode", t.start, t.end))
    ELSE IF t.kind = "variable" THEN JinjaAdd(s, JinjaNode("VariableNode", t.start, t.end))
    ELSE s

\* ------------------------------------------------------------ the document symbols

\* A Python string as the list of its characters, and back.
RECURSIVE Str(_)
Str(cs) == IF cs = << >> THEN "" ELSE Head(cs) \o Str(Tail(cs))

\* The characters of the texts the documents are written with, and of the
\* texts parse cuts out of them (ErrorValue).
Words ==
    { << "a" >>, << "v" >>, << "i", "n", "c", "l", "u", "d", "e" >>,
      << "e", "x", "t", "e", "n", "d" >>, << "r", "e", "q", "u", "i", "r", "e" >> }

Chars(tx) ==
    IF \E w \in Words : Str(w) = tx
    THEN CHOOSE w \in Words : Str(w) = tx
    ELSE CHOOSE cs \in { w \o << "\n" >> \o [i \in 1..c |-> " "] : w \in Words, c \in Cols } :
             Str(cs) = tx

\* NODE_IDENTIFIERS: the string identifier of a node (NoStr: None).
NodeIdentifier(ns, n) ==
    CASE ns[n].kind = "IncludesNode" -> "includes"
      [] ns[n].kind = "ExtendNode" -> "extend"
      [] ns[n].kind \in {"IncludeNode", "StateParameterNode", "StateCallNode", "StateNode",
                         "RequisiteNode", "RequisitesNode"} -> ns[n].name
      [] OTHER -> NoStr

\* StateNameCompletion: state_docs, the documentation of the module, and
\* state_params, the documentation of its submodules (NoStr: None).
Completer(docs, params) == [state_docs |-> docs, state_params |-> params]

\* The result of a function that may raise.
Value(v) == [exc |-> "none", val |-> v]

Raised(e) == [exc |-> e, val |-> NoStr]

\* A lookup that falls back to the documentation of the module when the
\* module has none of the submodule.
GetDocFromModuleName_Fallback(mod_name, state_completions) ==
    IF Len(Split(mod_name, << >>)) = 1
    THEN IF mod_name \in DOMAIN state_completions
         THEN Value(state_completions[mod_name].state_docs) ELSE Value(NoStr)
    ELSE IF Len(Split(mod_name, << >>)) # 2 THEN Raised("ValueError")
    ELSE IF Split(mod_name, << >>)[1] \notin DOMAIN state_completions THEN Value(NoStr)
    ELSE IF Split(mod_name, << >>)[2]
               \in DOMAIN state_completions[Split(mod_name, << >>)[1]].state_params
            /\ state_completions[Split(mod_name, << >>)[1]].state_params[Split(mod_name, << >>)[2]] # NoStr
         THEN Value(state_completions[Split(mod_name, << >>)[1]].state_params[Split(mod_name, << >>)[2]])
         ELSE Value(state_completions[Split(mod_name, << >>)[1]].state_docs)

\* _get_doc_from_module_name, mod_name being the node's identifier: with a
\* dot, "mod_base_name, submod_name = mod_name.split('.')", which raises
\* ValueError unless there are two parts.
GetDocFromModuleName(mod_name, state_completions) ==
    IF Len(Split(mod_name, << >>)) > 1
    THEN IF Len(Split(mod_name, << >>)) # 2 THEN Raised("ValueError")
         ELSE IF Split(mod_name, << >>)[1] \notin DOMAIN state_completions THEN Value(NoStr)
         ELSE IF Split(mod_name, << >>)[2]
                    \notin DOMAIN state_completions[Split(mod_name, << >>)[1]].state_params
              THEN Value(NoStr)
              ELSE Value(state_completions[Split(mod_name, << >>)[1]].state_params[Split(mod_name, << >>)[2]])
    ELSE IF mod_name \in DOMAIN state_completions
         THEN Value(state_completions[mod_name].state_docs)
         ELSE Value(NoStr)

ExtendDetail == "Extension of external SLS data.\nSee: https://docs.saltproject.io/en/latest/ref/states/extend.html\n"

IncludesDetail == "A list of included SLS files.\nSee also https://docs.saltproject.io/en/latest/ref/states/include.html\n"

RequisitesDetail == "List of requisites.\nSee also: https://docs.saltproject.io/en/latest/ref/states/requisites.html\n"

\* "x or ''" on an optional string.
OrEmpty(r) == IF r.exc = "none" /\ r.val = NoStr THEN Value("") ELSE r

\* DETAIL_OF_NODE_CONSTRUCTOR.get(...)(node, state_completions) or "".
DetailOf(kind, mod_name, state_completions) ==
    CASE kind \in {"RequisiteNode", "StateCallNode"} ->
             OrEmpty(GetDocFromModuleName(mod_name, state_completions))
      [] kind = "ExtendNode" -> Value(ExtendDetail)
      [] kind = "IncludesNode" -> Value(IncludesDetail)
      [] kind = "RequisitesNode" -> Value(RequisitesDetail)
      [] OTHER -> Value("")

\* The detail of the symbol of node n, a node that gets a symbol.
DetailOfNode(ns, n, state_completions) ==
    IF ns[n].kind \in {"RequisiteNode", "StateCallNode"} /\ ns[n].name # NoStr
    THEN DetailOf(ns[n].kind, Chars(ns[n].name), state_completions)
    ELSE DetailOf(ns[n].kind, << >>, state_completions)

\* The documentation indexes: the module "a" with or without its
\* documentation, its submodule "b" with or without its documentation.
Indexes ==
    { [m \in {} |-> Completer(NoStr, << >>)] }
    \cup { [m \in { << "a" >> } |-> Completer(docs, params)] :
              docs \in { NoStr, "doc of a" },
              params \in { [b \in {} |-> NoStr] }
                         \cup { [b \in { << "b" >> } |-> d] : d \in { NoStr, "doc of a.b" } } }

\* The names of at most n characters made of the names of the index and dots.
RECURSIVE ModNames(_)
ModNames(n) ==
    IF n = 0 THEN { << >> }
    ELSE ModNames(n - 1) \cup { Append(cs, c) : cs \in ModNames(n - 1), c \in { "a", "b", "." } }

\* get_children of document_symbols: the nodes whose symbols are the children
\* of the symbol of node n.
SymbolChildren(ns, n) ==
    IF ns[n].kind = "IncludesNode" THEN ns[n].kids
    ELSE IF ns[n].kind \in {"ExtendNode", "RequisitesNode", "StateCallNode", "StateNode"}
         THEN GetChildren(ns, n)
         ELSE << >>

\* _document_symbol_init_kwargs returns None.
NoSymbol(ns, n) ==
    NodeIdentifier(ns, n) = NoStr \/ ns[n].start = NoPos \/ ns[n].end = NoPos

\* A visitor that makes up a symbol for a node it has no name or range for.
SymbolOf_Always(ns, n, detail, children) ==
    << [node |-> n, name |-> NodeIdentifier(ns, n), start |-> ns[n].start, end |-> ns[n].end,
        selection_end |-> ns[n].start, kind |-> "Object", detail |-> detail, children |-> children] >>

\* Visitor.__call__ on node n: the DocumentSymbol appended, none if the node
\* has no name or lacks its start or end; node is the node the symbol is of.
SymbolOf(ns, n, detail, children) ==
    IF NoSymbol(ns, n) THEN << >>
    ELSE << [node |-> n,
             name |-> NodeIdentifier(ns, n),
             start |-> ns[n].start,
             end |-> ns[n].end,
             selection_end |-> Pos(ns[n].start.line, ns[n].start.col + Len(NodeIdentifier(ns, n))),
             kind |-> IF ns[n].kind = "IncludeNode" THEN "String" ELSE "Object",
             detail |-> detail,
             children |-> children] >>

\* The symbols of the nodes of list, in its order: child.visit(visitor) for
\* each, the visitor not recursing.
RECURSIVE SymbolsOf(_, _, _)
SymbolsOf(ns, list, state_completions) ==
    IF list = << >> THEN << >>
    ELSE SymbolOf(ns, Head(list),
                  DetailOfNode(ns, Head(list), state_completions).val,
                  SymbolsOf(ns, SymbolChildren(ns, Head(list)), state_completions))
         \o SymbolsOf(ns, Tail(list), state_completions)

\* The elements of the tree in the reverse order.
TreeElems_StatesFirst(ns) ==
    ns[1].kids
    \o (IF ns[1].extend # 0 THEN << ns[1].extend >> ELSE << >>)
    \o (IF ns[1].includes # 0 THEN << ns[1].includes >> ELSE << >>)

\* The elements tree_to_document_symbols chains: includes, extend, states.
TreeElems(ns) ==
    (IF ns[1].includes # 0 THEN << ns[1].includes >> ELSE << >>)
    \o (IF ns[1].extend # 0 THEN << ns[1].extend >> ELSE << >>)
    \o ns[1].kids

\* The nodes a symbol is made of: those of list and, below the ones that get
\* a symbol, those of their children.
RECURSIVE SymbolNodes(_, _)
SymbolNodes(ns, list) ==
    IF list = << >> THEN << >>
    ELSE (IF NoSymbol(ns, Head(list)) THEN << >>
          ELSE << Head(list) >> \o SymbolNodes(ns, SymbolChildren(ns, Head(list))))
         \o SymbolNodes(ns, Tail(list))

\* The exception tree_to_document_symbols raises ("none": none).
SymbolsRaise(ns, state_completions) ==
    IF \E n \in Elems(SymbolNodes(ns, TreeElems(ns))) :
          DetailOfNode(ns, n, state_completions).exc # "none"
    THEN "ValueError" ELSE "none"

\* tree_to_document_symbols(tree, state_completions), raising e.
TreeToDocumentSymbols(ns, state_completions, e) ==
    IF e # "none" THEN << >> ELSE SymbolsOf(ns, TreeElems(ns), state_completions)

\* ------------------------------------------------------------ the workspace

\* The tokens the scanner yields from line l + 1 of doc on, the indentation
\* stack being ind, up to the end of the stream.
RECURSIVE ScanFrom(_, _, _)
ScanFrom(ind, doc, l) ==
    IF l = Len(doc) THEN EndTokens(ind, l)
    ELSE LineTokens(ind, l, doc[l + 1]).toks
         \o ScanFrom(LineTokens(ind, l, doc[l + 1]).ind, doc, l + 1)

\* yaml.scan(document), of a document the scanner raises on nowhere.
Tokens(doc) == << Token("StreamStart", 0, 0, 0, NoStr) >> \o ScanFrom(<< -1 >>, doc, 0)

\* "for token in tokens: self._process_token(token)", up to the exception.
RECURSIVE Feed(_, _)
Feed(s, toks) ==
    IF toks = << >> \/ s.exc # "none" THEN s
    ELSE Feed(ProcessToken(s, Head(toks)), Tail(toks))

\* parse(document): Parser(document).parse(); exc is the exception raised.
parse(doc) == Feed(NewParser, Tokens(doc))

\* The documents of at most n lines the scanner reads to their end, each
\* with the indentation stack it leaves.
RECURSIVE Scanned(_)
Grown(d) ==
    { [doc |-> Append(d.doc, ln), ind |-> LineTokens(d.ind, Len(d.doc), ln).ind] :
         ln \in { x \in NextLines(d.ind, d.doc) : ~RequiredKey(d.ind, x) } }

Scanned(n) ==
    IF n = 0 THEN { [doc |-> << >>, ind |-> << -1 >>] }
    ELSE Scanned(n - 1) \cup UNION { Grown(d) : d \in Scanned(n - 1) }

\* The sources the documents of the workspace are given.
Sources == { d.doc : d \in Scanned(MaxSource) }

\* The URIs of the documents of the workspace.
Uris == { "file:///r/a.sls", "file:///r/b.sls" }

\* pygls' Document of a source; no document.
Document(src) == [tracked |-> TRUE, source |-> src]

NoDocument == [tracked |-> FALSE, source |-> << >>]

\* An entry of SlsFileWorkspace._trees and of _document_symbols; no entry.
Kept(v) == [kept |-> TRUE, val |-> v]

NotKept == [kept |-> FALSE, val |-> << >>]

\* SlsFileWorkspace._state_name_completions: the module "a" and its
\* submodule "b", both documented.
WorkspaceCompletions ==
    [m \in { << "a" >> } |-> Completer("doc of a", [b \in { << "b" >> } |-> "doc of a.b"])]

\* _update_document after tree_to_document_symbols has raised e or returned:
\* "self._document_symbols[uri] = ...", then _resolve_includes, which finds
\* no file to include (none of the included files exists) and returns.
UpdateSymbols(ws, uri, e) ==
    IF e # "none" THEN [ws EXCEPT !.exc = e]
    ELSE [ws EXCEPT !.symbols[uri] =
                Kept(TreeToDocumentSymbols(ws.trees[uri].val, WorkspaceCompletions, e))]

\* _update_document, p being what parse does on the source of the document:
\* "tree = parse(...)", "self._trees[uri] = tree", then the symbols.
UpdateTree(ws, uri, p) ==
    IF p.exc # "none" THEN [ws EXCEPT !.exc = p.exc]
    ELSE UpdateSymbols([ws EXCEPT !.trees[uri] = Kept(p.nodes)], uri,
                       SymbolsRaise(p.nodes, WorkspaceCompletions))

\* _update_document(text_document)
UpdateDocumentOf(ws, uri) == UpdateTree(ws, uri, parse(ws.docs[uri].source))

\* put_document: Workspace.put_document, then _update_document.
PutDocumentOf(ws, uri, src) == UpdateDocumentOf([ws EXCEPT !.docs[uri] = Document(src)], uri)

\* update_document with a change of the whole text: Workspace.update_document
\* (KeyError on a document it does not have), then _update_document.
ChangeDocumentOf(ws, uri, src) ==
    IF ~ws.docs[uri].tracked THEN [ws EXCEPT !.exc = "KeyError"]
    ELSE UpdateDocumentOf([ws EXCEPT !.docs[uri] = Document(src)], uri)

\* "self._trees.pop(FileUri(doc_uri))"
PopTree(ws, uri) ==
    IF ~ws.trees[uri].kept THEN [ws EXCEPT !.exc = "KeyError"]
    ELSE [ws EXCEPT !.trees[uri] = NotKept]

\* "self._document_symbols.pop(FileUri(doc_uri))", then the tree.
PopSymbols(ws, uri) ==
    IF ~ws.symbols[uri].kept THEN [ws EXCEPT !.exc = "KeyError"]
    ELSE PopTree([ws EXCEPT !.symbols[uri] = NotKept], uri)

\* remove_document: Workspace.remove_document ("self._docs.pop(doc_uri)"),
\* then the symbols and the tree.
RemoveDocumentOf(ws, uri) ==
    IF ~ws.docs[uri].tracked THEN [ws EXCEPT !.exc = "KeyError"]
    ELSE PopSymbols([ws EXCEPT !.docs[uri] = NoDocument], uri)

\* ---- the included files

\* The SLS files there are under the top path.
SlsFiles == { "a", "b", "c" }

\* The include lists of at most n entries that name files there are.
IncludeLists(n) == UNION { [1..k -> SlsFiles] : k \in 0..n }

\* What the files include: for each, the files its entries resolve to.
Graphs == [SlsFiles -> IncludeLists(MaxIncludes)]

\* The entries a list holds before the memory runs out, Python raising
\* MemoryError on the next: not less than the longest list the resolution of
\* includes that include nothing in a circle builds, the entries of a file
\* and, for each, those of its file.
ListCap == MaxIncludes * (MaxIncludes + 1)

\* _resolve_includes(uri) called: its frame, before its first statement.
Frame(uri) == [uri |-> uri, i |-> 1, at |-> "enter"]

\* "if inc in self._trees and self._includes.get(inc): new_includes +=
\* self._includes[inc]": the list after it, new_includes being the list
\* kept for uri itself.
Extended(incs, in_trees, uri, inc) ==
    IF inc \in in_trees /\ incs[inc].kept /\ incs[inc].val # << >>
    THEN incs[uri].val \o incs[inc].val
    ELSE incs[uri].val

\* ---- the server: find_id_in_includes

\* What the parsed contents of a registered file have under the id looked
\* for: nothing, a node with its line and column (lc), or a primitive value.
Defines == { "absent", "node", "primitive" }

\* SaltServer._files: for each registered file its includes and what it
\* has under the id.
SlsFile(incs, d) == [includes |-> incs, defines |-> d]

Registered == [SlsFiles -> { SlsFile(incs, d) : incs \in IncludeLists(MaxIncludes), d \in Defines }]

\* What find_id_in_includes returns, uri being the file of the Location
\* ("None": no Location), or raises.
Location(uri) == [exc |-> "none", uri |-> uri]

RecursionError == [exc |-> "RecursionError", uri |-> "None"]

\* The first loop: the first include that has the id (0: none).
FirstDefining(fs, incs) ==
    IF \E i \in 1..Len(incs) : fs[incs[i]].defines # "absent"
    THEN CHOOSE i \in 1..Len(incs) :
            /\ fs[incs[i]].defines # "absent"
            /\ \A j \in 1..(i - 1) : fs[incs[j]].defines = "absent"
    ELSE 0

\* "if not hasattr(target_element, 'lc'): return None", else the Location.
DirectMatch(fs, inc) == IF fs[inc].defines = "primitive" THEN Location("None") ELSE Location(inc)

RECURSIVE FindIdInIncludes(_, _, _)
RECURSIVE Deeper(_, _, _)

\* The second loop after the recursive call on the first of incs returned
\* or raised match.
DeeperAfter(match, fs, incs, depth) ==
    IF match.exc # "none" \/ match.uri # "None" THEN match
    ELSE Deeper(fs, Tail(incs), depth)

\* The second loop: "recursive_match = self.find_id_in_includes(id_to_find,
\* inc)" for each include, the first match returned.
Deeper(fs, incs, depth) ==
    IF incs = << >> THEN Location("None")
    ELSE DeeperAfter(FindIdInIncludes(fs, Head(incs), depth + 1), fs, incs, depth)

\* find_id_in_includes(id_to_find, starting_uri), depth calls deep.
FindIdInIncludes(fs, uri, depth) ==
    IF depth > RecursionLimit THEN RecursionError
    ELSE IF FirstDefining(fs, fs[uri].includes) # 0
         THEN DirectMatch(fs, fs[uri].includes[FirstDefining(fs, fs[uri].includes)])
         ELSE Deeper(fs, fs[uri].includes, depth)

\* ---- the server: reconcile_file

\* The texts of at most n characters: a letter, a line break, an opening
\* bracket.
RECURSIVE TextsUpTo(_)
TextsUpTo(n) ==
    IF n = 0 THEN { << >> }
    ELSE TextsUpTo(n - 1) \cup { Append(cs, c) : cs \in TextsUpTo(n - 1), c \in { "a", "\n", "[" } }

\* The index of the first character of line number line of text, its length
\* if it has fewer lines: the sum of the lengths of the lines before it,
\* text.splitlines(keepends=True) cutting after every line break.
LineStart(cs, line) ==
    IF line = 0 THEN 0
    ELSE IF Cardinality({ i \in 1..Len(cs) : cs[i] = "\n" }) < line THEN Len(cs)
         ELSE CHOOSE i \in 1..Len(cs) :
                 /\ cs[i] = "\n"
                 /\ Cardinality({ j \in 1..i : cs[j] = "\n" }) = line

\* utils.position_to_index(text, line, column)
PositionToIndex(cs, p) == LineStart(cs, p.line) + p.col

\* A TextDocumentContentChangeEvent with a range.
Change(start, end, text) == [start |-> start, end |-> end, text |-> text]

\* The changes a notification carries: ranges of the first two lines, texts
\* of at most one character.
Changes ==
    { Change(Pos(sl, sc), Pos(el, ec), text) :
         sl \in 0..1, sc \in 0..MaxText, el \in 0..1, ec \in 0..MaxText, text \in TextsUpTo(1) }

RangedChanges == { c \in Changes : PosLe(c.start, c.end) }

\* "content[:start] + change.text + content[end:]"
Splice(content, change) ==
    Slice(content, 1, PositionToIndex(content, change.start))
    \o change.text
    \o Slice(content, PositionToIndex(content, change.end) + 1, Len(content))

\* The first index of cs from i on that holds no line break.
RECURSIVE FirstChar(_, _)
FirstChar(cs, i) ==
    IF i > Len(cs) \/ cs[i] # "\n" THEN i ELSE FirstChar(cs, i + 1)

\* yaml.load raises on the text: its first token opens a flow sequence
\* that nothing closes.
LoadRaises(cs) == FirstChar(cs, 1) <= Len(cs) /\ cs[FirstChar(cs, 1)] = "["

\* yaml.load(text) of a text it does not raise on: the plain scalar of the
\* words of its lines (none: None).
RECURSIVE Load(_, _)
Load(cs, word) ==
    IF cs = << >> THEN (IF word = << >> THEN << >> ELSE << word >>)
    ELSE IF Head(cs) = "\n"
         THEN (IF word = << >> THEN << >> ELSE << word >>) \o Load(Tail(cs), << >>)
         ELSE Load(Tail(cs), Append(word, Head(cs)))

\* SlsFile.reparse()
Reparse(f) ==
    IF LoadRaises(f.contents) THEN [f EXCEPT !.parsed_contents_stale = TRUE]
    ELSE [f EXCEPT !.parsed_contents = Kept(Load(f.contents, << >>)),
                   !.parsed_contents_stale = FALSE]

\* SlsFile(contents, uri), of a file with no includes.
NewSlsFile(text) ==
    Reparse([contents |-> text, parsed_contents |-> NotKept, parsed_contents_stale |-> TRUE])

\* reconcile_file: the loop over params.content_changes, content being the
\* contents the file had before the loop.
RECURSIVE ReconcileFile(_, _, _)
ReconcileFile(f, content, changes) ==
    IF changes = << >> THEN f
    ELSE ReconcileFile(Reparse([f EXCEPT !.contents = Splice(content, Head(changes))]),
                       content, Tail(changes))

\* ------------------------------------------------------------ the state

VARIABLES
    document,             \* Parser.document: the lines the scanner has read
    indents,              \* the scanner's indentation stack
    queue,                \* the tokens the scanner holds, not yet yielded
    stream_ended,         \* the scanner has reached the end of the stream
    err,                  \* the ScannerError raised: context_mark, problem_mark
    token,                \* parse's variable token: the token yielded last
    pc,                   \* parse: "scan", "recover", "done" (returned), "raised"
    iter,                 \* the index of reversed(self._breadcrumbs) in the recovery
    open_nodes,           \* history: the breadcrumbs as they were when the scanner raised
    exc,                  \* the exception raised ("none": none)
    nodes,                \* the arena of the nodes built; node 1 is Parser._tree
    breadcrumbs,          \* Parser._breadcrumbs
    block_starts,         \* Parser._block_starts
    next_scalar_as_key,   \* Parser._next_scalar_as_key
    next_token_is_value,  \* Parser._next_token_is_value
    capture,              \* Parser._unprocessed_tokens is not None
    unprocessed_tokens,   \* Parser._unprocessed_tokens
    last_start,           \* Parser._last_start
    pos,                  \* the position handed to construct_path_to_position
    path,                 \* its result
    refused,              \* the nodes the visitor handed to Tree.visit returns False on
    calls,                \* the nodes that visitor was called on, in the order of the calls
    state_completions,    \* the documentation index handed to tree_to_document_symbols
    document_symbols,     \* its result
    symbols_exc           \* "unasked", or the exception it raised ("none": none)

scanner_vars == << document, indents, queue, stream_ended, err >>

parser_vars == << nodes, breadcrumbs, block_starts, next_scalar_as_key, next_token_is_value,
                  capture, unprocessed_tokens, last_start >>

resolver_vars == << pos, path >>

visit_vars == << refused, calls >>

symbol_vars == << state_completions, document_symbols, symbols_exc >>

\* The detail of one node: mod_name, the name of a StateCallNode or
\* RequisiteNode, and detail, what Visitor.__call__ computes as the detail of
\* its symbol from state_completions (exc "unasked": not yet).
VARIABLES mod_name, detail

doc_vars == << mod_name, detail >>

\* The file of one include: the value of the IncludeNode, the top_path
\* get_file is called with (made absolute), whether it is a directory, the
\* files there are, and file, what get_file returns (asked: it has).
VARIABLES include_value, top_path, is_dir, files, file, asked

file_vars == << include_value, top_path, is_dir, files, file, asked >>

\* The comparison of positions: operands, three Positions a, b and c, and
\* compared, what the comparison operators return on them (done: they have).
VARIABLES operands, compared

order_vars == << operands, compared >>

\* A UriDict: data, its _data; stored, for every path the value last stored
\* under it through any key form (0: none, or deleted); request, the last
\* operation made, and ops, how many were made.
VARIABLES data, stored, request, ops

uri_vars == << data, stored, request, ops >>

\* jinja_parser.parse: jinja, its nodes (the tree is node 1), its breadcrumbs
\* and the exception it raised; consumed, the tokens it has taken; returned,
\* whether it has returned its tree.
VARIABLES jinja, consumed, returned

jinja_vars == << jinja, consumed, returned >>

\* SlsFileWorkspace: ws_docs, Workspace._docs; trees, _trees;
\* ws_document_symbols, _document_symbols; ws_exc, the exception the last
\* call raised ("none": none).
VARIABLES ws_docs, trees, ws_document_symbols, ws_exc

workspace_vars == << ws_docs, trees, ws_document_symbols, ws_exc >>

\* SlsFileWorkspace._resolve_includes: graph, what the files on the disk
\* include; includes, _includes; tracked, the URIs _trees has; frames, the
\* calls of _resolve_includes under way, the innermost last, each with the
\* index its loop is at; started, put_document was called; include_exc, the
\* exception it raised ("none": none).
VARIABLES graph, includes, tracked, frames, started, include_exc

include_vars == << graph, includes, tracked, frames, started, include_exc >>

\* find_id_in_includes: sls_files, SaltServer._files; found, the file it
\* was started at and what it returned or raised (done: it has).
VARIABLES sls_files, found

find_vars == << sls_files, found >>

\* reconcile_file: opened, the text the file was registered with; sls_file,
\* its SlsFile; content_changes, the changes of the notification;
\* reconciled, reconcile_file has returned.
VARIABLES opened, sls_file, content_changes, reconciled

edit_vars == << opened, sls_file, content_changes, reconciled >>

\* The variables of the workspace and of the server.
server_vars == << workspace_vars, include_vars, find_vars, edit_vars >>

\* The variables of the functions looked at on their own.
unit_vars == << doc_vars, file_vars, order_vars, uri_vars, jinja_vars, server_vars >>

\* The variables of the clients of the parser.
client_vars == << resolver_vars, visit_vars, symbol_vars, unit_vars >>

vars == << scanner_vars, token, pc, iter, open_nodes, exc, parser_vars, client_vars >>

NoError == [context |-> NoPos, problem |-> NoPos, value |-> NoStr]

\* The parser's fields as one record, and back.
Parser ==
    [nodes |-> nodes, bc |-> breadcrumbs, bs |-> block_starts, nsak |-> next_scalar_as_key,
     ntiv |-> next_token_is_value, capture |-> capture, unp |-> unprocessed_tokens,
     last_start |-> last_start, exc |-> "none", ret |-> FALSE]

Store(s, then) ==
    /\ pc' = (IF s.exc # "none" THEN "raised" ELSE then)
    /\ nodes' = s.nodes
    /\ breadcrumbs' = s.bc
    /\ block_starts' = s.bs
    /\ next_scalar_as_key' = s.nsak
    /\ next_token_is_value' = s.ntiv
    /\ capture' = s.capture
    /\ unprocessed_tokens' = s.unp
    /\ last_start' = s.last_start
    /\ exc' = s.exc

\* Parser(document), and yaml.scan(document) holding the stream start token;
\* no request made.
Constructed ==
    /\ document = << >>
    /\ indents = << -1 >>
    /\ queue = << Token("StreamStart", 0, 0, 0, NoStr) >>
    /\ stream_ended = FALSE
    /\ err = NoError
    /\ token = NoToken
    /\ pc = "scan"
    /\ iter = 0
    /\ open_nodes = << >>
    /\ exc = "none"
    /\ nodes = NewParser.nodes
    /\ breadcrumbs = NewParser.bc
    /\ block_starts = NewParser.bs
    /\ next_scalar_as_key = NewParser.nsak
    /\ next_token_is_value = NewParser.ntiv
    /\ capture = NewParser.capture
    /\ unprocessed_tokens = NewParser.unp
    /\ last_start = NewParser.last_start
    /\ pos = NoPos
    /\ path = << >>
    /\ refused = {}
    /\ calls = << >>
    /\ document_symbols = << >>
    /\ symbols_exc = "unasked"

\* No node whose detail is asked for.
NoDoc == mod_name = << >> /\ detail = Raised("unasked")

\* No include whose file is asked for.
NoInclude ==
    /\ include_value = Absent /\ top_path = << "/" >> /\ is_dir = TRUE
    /\ files = {} /\ file = NoFile /\ asked = FALSE

\* The operators on no operands.
Uncompared ==
    [done |-> FALSE, lt |-> FALSE, eq |-> FALSE, gt |-> FALSE, le |-> FALSE, ge |-> FALSE,
     lt_bc |-> FALSE, lt_ac |-> FALSE]

\* No positions compared.
NoOrder == operands = << NoPos, NoPos, NoPos >> /\ compared = Uncompared

\* No operation made on the UriDict.
NoRequest == [kind |-> "none", string |-> << >>, path |-> << >>, exc |-> "none", res |-> 0, last |-> 0]

\* UriDict()
NoUris == data = << >> /\ stored = [p \in Paths |-> 0] /\ request = NoRequest /\ ops = 0

\* parse(tokens) before its first token.
NoJinja == jinja = JinjaStart /\ consumed = 0 /\ returned = FALSE

\* SlsFileWorkspace(...) with no document.
NoWorkspace ==
    /\ ws_docs = [u \in Uris |-> NoDocument]
    /\ trees = [u \in Uris |-> NotKept]
    /\ ws_document_symbols = [u \in Uris |-> NotKept]
    /\ ws_exc = "none"

\* No file put, with the files on the disk including what g says.
Unresolved(g) ==
    /\ graph = g
    /\ includes = [f \in SlsFiles |-> NotKept]
    /\ tracked = {}
    /\ frames = << >>
    /\ started = FALSE
    /\ include_exc = "none"

\* Files that include nothing.
NoIncludes == Unresolved([f \in SlsFiles |-> << >>])

\* find_id_in_includes not called.
NotSought == [done |-> FALSE, start |-> "None", exc |-> "none", uri |-> "None"]

\* Registered files that include nothing and lack the id.
NoFind == sls_files = [f \in SlsFiles |-> SlsFile(<< >>, "absent")] /\ found = NotSought

\* A file registered with the text, no change notified.
Registering(text) ==
    /\ opened = text
    /\ sls_file = NewSlsFile(text)
    /\ content_changes = << >>
    /\ reconciled = FALSE

\* An empty file registered.
NoEdit == Registering(<< >>)

\* The workspace and the server with nothing in them.
NoServer == NoWorkspace /\ NoIncludes /\ NoFind /\ NoEdit

\* The functions looked at on their own, not called.
Idle == NoDoc /\ NoInclude /\ NoOrder /\ NoUris /\ NoJinja /\ NoServer

Init ==
    /\ Constructed
    /\ state_completions = << >>
    /\ Idle

\* ---- the scanner's steps

\* The text parse cuts out of the document for the scalar it makes up in the
\* recovery: document[context_mark.index : problem_mark.index].strip("\r\n"),
\* the text of the line and, the problem being at column col of the next
\* line, the line break and the indentation before it.
ErrorValue(text, col) == IF col = 0 THEN text ELSE text \o "\n" \o Spaces(col)

\* The scanner reads the next line.  A plain scalar that must be a key, with
\* no colon: ScannerError, the context being the scalar's start and the
\* problem the start of the token after it (of the next line, or the end).
ScanLine ==
    /\ pc = "scan" /\ queue = << >> /\ ~stream_ended
    /\ Len(document) <= MaxLines
    /\ \E ln \in NextLines(indents, document) :
          /\ Len(document) = MaxLines => RequiredKey(indents, ln)
          /\ document' = Append(document, ln)
          /\ IF RequiredKey(indents, ln)
             THEN /\ \E c \in { x \in Cols : x <= ln.col /\ (x > 0 => Len(document) + 1 < MaxLines) } :
                        err' = [context |-> Pos(Len(document), ln.col),
                                problem |-> Pos(Len(document) + 1, c),
                                value |-> ErrorValue(ln.text, c)]
                  /\ pc' = IF token # NoToken THEN "recover" ELSE "done"
                  /\ iter' = Len(breadcrumbs)
                  /\ open_nodes' = breadcrumbs
                  /\ UNCHANGED << indents, queue >>
             ELSE /\ queue' = LineTokens(indents, Len(document), ln).toks
                  /\ indents' = LineTokens(indents, Len(document), ln).ind
                  /\ UNCHANGED << err, pc, iter, open_nodes >>
    /\ UNCHANGED << stream_ended, token, exc, parser_vars, client_vars >>

\* The scanner reaches the end of the document.
ScanEnd ==
    /\ pc = "scan" /\ queue = << >> /\ ~stream_ended
    /\ queue' = EndTokens(indents, Len(document))
    /\ indents' = << -1 >>
    /\ stream_ended' = TRUE
    /\ UNCHANGED << document, err, token, pc, iter, open_nodes, exc, parser_vars, client_vars >>

\* ---- parse: "for token in tokens: self._process_token(token)"

Process ==
    /\ pc = "scan" /\ queue # << >>
    /\ Store(ProcessToken(Parser, Head(queue)),
             IF stream_ended /\ Len(queue) = 1 THEN "done" ELSE "scan")
    /\ token' = Head(queue)
    /\ queue' = Tail(queue)
    /\ UNCHANGED << document, indents, stream_ended, err, iter, open_nodes, client_vars >>

\* ---- parse: the recovery, "for node in reversed(self._breadcrumbs)"

\* The tokens parse makes up.
ErrorEnd == [kind |-> "BlockEnd", start |-> err.context, end |-> err.context, value |-> NoStr]

ErrorScalar == [kind |-> "Scalar", start |-> err.context, end |-> err.problem, value |-> err.value]

\* "self._process_token(error_token)", the block end going before it.
RecoverScalar(s) ==
    IF s.exc = "none" /\ err.problem # NoPos THEN ProcessToken(s, ErrorScalar) ELSE s

\* A recovery that makes up the block end for the nodes left of the error.
RecoverNode_LeftOfError(s, n) ==
    IF s.nodes[n].start # NoPos /\ err.context # NoPos /\ s.nodes[n].start.col < err.context.col
    THEN ProcessToken(s, ErrorEnd)
    ELSE IF s.nodes[n].start # NoPos /\ err.context # NoPos /\ err.context.col = s.nodes[n].start.col
         THEN RecoverScalar(ProcessToken(s, ErrorEnd))
         ELSE IF err.problem # NoPos THEN [s EXCEPT !.nodes[n].end = err.problem] ELSE s

\* What parse does with a node that is open when the scanner raised.
RecoverNode(s, n) ==
    IF s.nodes[n].start # NoPos /\ err.context # NoPos /\ err.context.col < s.nodes[n].start.col
    THEN ProcessToken(s, ErrorEnd)
    ELSE IF s.nodes[n].start # NoPos /\ err.context # NoPos /\ err.context.col = s.nodes[n].start.col
         THEN RecoverScalar(ProcessToken(s, ErrorEnd))
         ELSE IF err.problem # NoPos THEN [s EXCEPT !.nodes[n].end = err.problem] ELSE s

\* Whether the list iterator has a next node: Python's reversed(list) stops
\* once its index is no index of the list any more.
HasNext == iter >= 1 /\ iter <= Len(breadcrumbs)

\* One pass of the loop.
Recover ==
    /\ pc = "recover" /\ HasNext
    /\ Store(RecoverNode(Parser, breadcrumbs[iter]), "recover")
    /\ iter' = iter - 1
    /\ UNCHANGED << scanner_vars, token, open_nodes, client_vars >>

\* The loop is over: "return self._tree".
RecoverEnd ==
    /\ pc = "recover" /\ ~HasNext
    /\ pc' = "done"
    /\ UNCHANGED << scanner_vars, token, iter, open_nodes, exc, parser_vars, client_vars >>

\* ---- the request: construct_path_to_position(tree, pos) on the tree parse returned

\* The positions asked for.
Positions == { Pos(l, c) : l \in 0..MaxLines, c \in 0..MaxCol }

Resolve ==
    /\ pc = "done" /\ pos = NoPos
    /\ \E order \in { Visit(nodes, << 1 >>) } :
          /\ \E p \in Positions :
                /\ pos' = p
                /\ path' = ConstructPath(nodes, order, p)
          /\ exc' = IF PathRaises(nodes, order) THEN "TypeError" ELSE "none"
    /\ UNCHANGED << scanner_vars, token, pc, iter, open_nodes, parser_vars, visit_vars, symbol_vars,
                    unit_vars >>

\* ---- the request: tree.visit(visitor) on the tree parse returned

\* Tree.visit(visitor), with a visitor that returns False on the nodes of no.
VisitTree ==
    /\ pc = "done" /\ calls = << >>
    /\ \E order \in { Visit(nodes, << 1 >>) } :
          \E no \in SUBSET Elems(order) :
             /\ Cardinality(no) <= MaxRefused
             /\ refused' = no
             /\ calls' = VisitCalls(nodes, << 1 >>, Elems(order) \ no)
    /\ UNCHANGED << scanner_vars, token, pc, iter, open_nodes, exc, parser_vars, resolver_vars,
                    symbol_vars, unit_vars >>

\* ---- the request: tree_to_document_symbols(tree, state_completions) on the
\* tree parse returned

DocumentSymbol ==
    /\ pc = "done" /\ symbols_exc = "unasked"
    /\ \E index \in Indexes :
          /\ state_completions' = index
          /\ \E e \in { SymbolsRaise(nodes, index) } :
                /\ symbols_exc' = e
                /\ document_symbols' = TreeToDocumentSymbols(nodes, index, e)
    /\ UNCHANGED << scanner_vars, token, pc, iter, open_nodes, exc, parser_vars, resolver_vars,
                    visit_vars, unit_vars >>

Next ==
    \/ ScanLine
    \/ ScanEnd
    \/ Process
    \/ Recover
    \/ RecoverEnd

Spec == Init /\ [][Next]_vars

\* The parser and the requests to the path resolver.
NextPath == Next \/ Resolve

SpecPath == Init /\ [][NextPath]_vars

\* The parser and the visits of its trees.
NextVisit == Next \/ VisitTree

SpecVisit == Init /\ [][NextVisit]_vars

\* The parser and the requests for the document symbols of its trees.
NextSymbols == Next \/ DocumentSymbol

SpecSymbols == Init /\ [][NextSymbols]_vars

\* ---- documents that end with closing brackets no flow collection has opened

\* No line read is such a bracket.
NoStray == \A i \in 1..Len(document) : document[i].shape \notin Closers

Strays == Cardinality({ i \in 1..Len(document) : document[i].shape \in Closers })

\* The scanner reads a line that is a closing bracket.  Its flow level goes
\* below zero: from here on it is in a flow context and unwinds no
\* indentation any more, which the emptied indentation stack stands for.
ScanStray ==
    /\ pc = "scan" /\ queue = << >> /\ ~stream_ended
    /\ Len(document) < MaxLines /\ Strays < MaxStray
    /\ \E c \in Cols, sh \in Closers :
          /\ c <= (IF Len(document) > 0 /\ Last(document).shape \in PlainEnd
                   THEN Last(indents) ELSE Last(indents) + 2)
          /\ document' = Append(document, Line(c, sh, ""))
          /\ queue' = StrayTokens(indents, Len(document), c, sh)
          /\ indents' = << -1 >>
    /\ UNCHANGED << stream_ended, err, token, pc, iter, open_nodes, exc, parser_vars, client_vars >>

\* After such a bracket the model has closing brackets and the end only.
NextEnds ==
    \/ NoStray /\ ScanLine
    \/ ScanStray
    \/ ScanEnd
    \/ Process
    \/ Recover
    \/ RecoverEnd

SpecEnds == Init /\ [][NextEnds]_vars

\* ---- the detail of the symbol of one node

\* A StateCallNode or RequisiteNode of any name, and any index.
InitDoc ==
    /\ Constructed
    /\ state_completions \in Indexes
    /\ mod_name \in ModNames(MaxName)
    /\ detail = Raised("unasked")
    /\ NoInclude
    /\ NoOrder
    /\ NoUris
    /\ NoJinja
    /\ NoServer

\* The detail Visitor.__call__ hands to DocumentSymbol for the node.
DocDetail ==
    /\ detail.exc = "unasked"
    /\ \E kind \in { "StateCallNode", "RequisiteNode" } :
          detail' = DetailOf(kind, mod_name, state_completions)
    /\ UNCHANGED << scanner_vars, token, pc, iter, open_nodes, exc, parser_vars, resolver_vars,
                    visit_vars, symbol_vars, mod_name, file_vars, order_vars, uri_vars,
                    jinja_vars, server_vars >>

SpecDoc == InitDoc /\ [][DocDetail]_vars

\* ---- the file of one include

\* An IncludeNode of any value, a top path, and the files there are.
InitFile ==
    /\ Constructed
    /\ state_completions = << >>
    /\ NoDoc
    /\ include_value \in { Absent } \cup IncludeValues(MaxValue)
    /\ top_path \in TopPaths
    /\ is_dir \in BOOLEAN
    /\ files \in SUBSET Sought(include_value, TopDir(top_path, is_dir))
    /\ file = NoFile
    /\ asked = FALSE
    /\ NoOrder
    /\ NoUris
    /\ NoJinja
    /\ NoServer

\* node.get_file(top_path)
IncludeFile ==
    /\ ~asked
    /\ asked' = TRUE
    /\ file' = GetFile(include_value, TopDir(top_path, is_dir), files)
    /\ UNCHANGED << scanner_vars, token, pc, iter, open_nodes, exc, parser_vars, resolver_vars,
                    visit_vars, symbol_vars, doc_vars, include_value, top_path, is_dir, files,
                    order_vars, uri_vars, jinja_vars, server_vars >>

SpecFile == InitFile /\ [][IncludeFile]_vars

\* ---- the comparison of positions

\* The positions of the first lines and columns.
Coords == { Pos(l, c) : l \in 0..MaxCoord, c \in 0..MaxCoord }

\* Any three positions.
InitOrder ==
    /\ Constructed
    /\ state_completions = << >>
    /\ NoDoc
    /\ NoInclude
    /\ operands \in Coords \X Coords \X Coords
    /\ compared = Uncompared
    /\ NoUris
    /\ NoJinja
    /\ NoServer

\* a < b, a == b, a > b, a <= b, a >= b, b < c, a < c
Compare ==
    /\ ~compared.done
    /\ compared' = [done |-> TRUE,
                    lt |-> PosLt(operands[1], operands[2]),
                    eq |-> operands[1] = operands[2],
                    gt |-> PosGt(operands[1], operands[2]),
                    le |-> PosLe(operands[1], operands[2]),
                    ge |-> PosGe(operands[1], operands[2]),
                    lt_bc |-> PosLt(operands[2], operands[3]),
                    lt_ac |-> PosLt(operands[1], operands[3])]
    /\ UNCHANGED << scanner_vars, token, pc, iter, open_nodes, exc, parser_vars, resolver_vars,
                    visit_vars, symbol_vars, doc_vars, file_vars, operands, uri_vars,
                    jinja_vars, server_vars >>

SpecOrder == InitOrder /\ [][Compare]_vars

\* ---- the UriDict

\* What the operations on the UriDict leave alone.
UriFrame ==
    UNCHANGED << scanner_vars, token, pc, iter, open_nodes, exc, parser_vars, resolver_vars,
                 visit_vars, symbol_vars, doc_vars, file_vars, order_vars, jinja_vars,
                 server_vars >>

\* d[key] = value, key of form f for path p
SetItem(f, p, value) ==
    /\ ops < MaxOps /\ ops' = ops + 1
    /\ \E k \in { KeyGen(KeyString(f, p)) } :
          /\ data' = [x \in DOMAIN data \cup { k.key } |-> IF x = k.key THEN value ELSE data[x]]
          /\ stored' = [stored EXCEPT ![p] = value]
          /\ request' = [kind |-> "set", string |-> KeyString(f, p), path |-> p, exc |-> "none",
                         res |-> 0, last |-> value]
    /\ UriFrame

\* del d[key], key of form f for path p: KeyError if there is no such key
DelItem(f, p) ==
    /\ ops < MaxOps /\ ops' = ops + 1
    /\ \E k \in { KeyGen(KeyString(f, p)) } :
          /\ data' = [x \in DOMAIN data \ { k.key } |-> data[x]]
          /\ stored' = [stored EXCEPT ![p] = 0]
          /\ request' = [kind |-> "del", string |-> KeyString(f, p), path |-> p,
                         exc |-> IF k.key \in DOMAIN data THEN "none" ELSE "KeyError",
                         res |-> 0, last |-> stored[p]]
    /\ UriFrame

\* d[key], key of form f for path p: KeyError if there is no such key
GetItem(f, p) ==
    /\ ops < MaxOps /\ ops' = ops + 1
    /\ \E k \in { KeyGen(KeyString(f, p)) } :
          request' = [kind |-> "get", string |-> KeyString(f, p), path |-> p,
                      exc |-> IF k.key \in DOMAIN data THEN "none" ELSE "KeyError",
                      res |-> IF k.key \in DOMAIN data THEN data[k.key] ELSE 0,
                      last |-> stored[p]]
    /\ UNCHANGED << data, stored >>
    /\ UriFrame

\* FileUri(uri) on the URI of another scheme, as d[uri] makes it: ValueError
ForeignKey(uri) ==
    /\ ops < MaxOps /\ ops' = ops + 1
    /\ request' = [kind |-> "get", string |-> uri, path |-> << >>,
                   exc |-> IF KeyGen(uri).ok THEN "KeyError" ELSE "ValueError",
                   res |-> 0, last |-> 0]
    /\ UNCHANGED << data, stored >>
    /\ UriFrame

NextUris ==
    \/ \E f \in KeyForms, p \in Paths, value \in { 1, 2 } : SetItem(f, p, value)
    \/ \E f \in KeyForms, p \in Paths : DelItem(f, p)
    \/ \E f \in KeyForms, p \in Paths : GetItem(f, p)
    \/ \E uri \in ForeignUris : ForeignKey(uri)

SpecUris == Init /\ [][NextUris]_vars

\* ---- the Jinja parser

\* What the Jinja parser leaves alone.
JinjaFrame ==
    UNCHANGED << scanner_vars, token, pc, iter, open_nodes, exc, parser_vars, resolver_vars,
                 visit_vars, symbol_vars, doc_vars, file_vars, order_vars, uri_vars,
                 server_vars >>

\* The next token of the list, of any kind, one column wide.
JinjaStep ==
    /\ ~returned /\ jinja.exc = "none" /\ consumed < MaxTokens
    /\ \E kind \in TokenKinds :
          jinja' = JinjaToken(jinja, [kind |-> kind, start |-> Pos(0, consumed),
                                      end |-> Pos(0, consumed + 1)])
    /\ consumed' = consumed + 1
    /\ UNCHANGED returned
    /\ JinjaFrame

\* The tokens are used up: the nodes left on the breadcrumbs are closed and
\* the tree is returned.
JinjaReturn ==
    /\ ~returned /\ jinja.exc = "none"
    /\ jinja' = [jinja EXCEPT !.ns = CloseAll(@, CloseOrder(jinja.bc))]
    /\ returned' = TRUE
    /\ UNCHANGED consumed
    /\ JinjaFrame

NextJinja == JinjaStep \/ JinjaReturn

SpecJinja == Init /\ [][NextJinja]_vars

\* ---- the workspace

\* SlsFileWorkspace as one record, and back.
Workspace == [docs |-> ws_docs, trees |-> trees, symbols |-> ws_document_symbols, exc |-> "none"]

StoreWorkspace(ws) ==
    /\ ws_docs' = ws.docs
    /\ trees' = ws.trees
    /\ ws_document_symbols' = ws.symbols
    /\ ws_exc' = ws.exc

\* What the calls on the workspace leave alone.
WorkspaceFrame ==
    UNCHANGED << scanner_vars, token, pc, iter, open_nodes, exc, parser_vars, resolver_vars,
                 visit_vars, symbol_vars, doc_vars, file_vars, order_vars, uri_vars,
                 jinja_vars, include_vars, find_vars, edit_vars >>

\* put_document(TextDocumentItem(uri, text))
PutDocument ==
    /\ \E uri \in Uris, src \in Sources : StoreWorkspace(PutDocumentOf(Workspace, uri, src))
    /\ WorkspaceFrame

\* update_document(VersionedTextDocumentIdentifier(uri), change), the change
\* replacing the whole text.
UpdateDocument ==
    /\ \E uri \in Uris, src \in Sources : StoreWorkspace(ChangeDocumentOf(Workspace, uri, src))
    /\ WorkspaceFrame

\* remove_document(uri)
RemoveDocument ==
    /\ \E uri \in Uris : StoreWorkspace(RemoveDocumentOf(Workspace, uri))
    /\ WorkspaceFrame

NextWorkspace == PutDocument \/ UpdateDocument \/ RemoveDocument

SpecWorkspace == Init /\ [][NextWorkspace]_vars

\* ---- the includes of the workspace

\* The files on the disk include each other in any way.
InitIncludes ==
    /\ Constructed
    /\ state_completions = << >>
    /\ NoDoc /\ NoInclude /\ NoOrder /\ NoUris /\ NoJinja /\ NoWorkspace /\ NoFind /\ NoEdit
    /\ \E g \in Graphs : Unresolved(g)

\* What the resolution of the includes leaves alone.
IncludesFrame ==
    UNCHANGED << scanner_vars, token, pc, iter, open_nodes, exc, parser_vars, resolver_vars,
                 visit_vars, symbol_vars, doc_vars, file_vars, order_vars, uri_vars,
                 jinja_vars, workspace_vars, find_vars, edit_vars, graph >>

\* The call of _resolve_includes under way, and the entry its loop is at.
Resolving == frames[Len(frames)]

Inc == includes[Resolving.uri].val[Resolving.i]

Goto(at) == [frames EXCEPT ![Len(frames)].at = at]

\* put_document of a file by the client: _update_document stores its tree
\* and calls _resolve_includes.
PutFile ==
    /\ ~started
    /\ started' = TRUE
    /\ \E uri \in SlsFiles : tracked' = { uri } /\ frames' = << Frame(uri) >>
    /\ UNCHANGED << includes, include_exc >>
    /\ IncludesFrame

\* _resolve_includes: it returns if the tree has no includes; else
\* "self._includes[uri] = [...]", "new_includes = self._includes[uri]".
ResolveEnter ==
    /\ frames # << >> /\ Resolving.at = "enter"
    /\ IF graph[Resolving.uri] = << >>
       THEN frames' = Front(frames) /\ UNCHANGED includes
       ELSE /\ includes' = [includes EXCEPT ![Resolving.uri] = Kept(graph[Resolving.uri])]
            /\ frames' = Goto("for")
    /\ UNCHANGED << tracked, started, include_exc >>
    /\ IncludesFrame

\* "for inc in self._includes[uri]": the loop ends and the call returns, or
\* the next entry is taken; "if inc not in self._trees": put_document(inc)
\* stores its tree and calls _resolve_includes(inc).
ResolveNext ==
    /\ frames # << >> /\ Resolving.at = "for"
    /\ IF Resolving.i > Len(includes[Resolving.uri].val)
       THEN frames' = Front(frames) /\ UNCHANGED tracked
       ELSE IF Inc \notin tracked
            THEN /\ tracked' = tracked \cup { Inc }
                 /\ frames' = Append(Goto("again"), Frame(Inc))
            ELSE frames' = Goto("extend") /\ UNCHANGED tracked
    /\ UNCHANGED << includes, started, include_exc >>
    /\ IncludesFrame

\* "self._resolve_includes(inc)", after put_document(inc).
ResolveAgain ==
    /\ frames # << >> /\ Resolving.at = "again"
    /\ frames' = Append(Goto("extend"), Frame(Inc))
    /\ UNCHANGED << includes, tracked, started, include_exc >>
    /\ IncludesFrame

\* "new_includes += self._includes[inc]", and on to the next entry; with no
\* memory left for the list, MemoryError, which ends every call under way.
ResolveExtend ==
    /\ frames # << >> /\ Resolving.at = "extend"
    /\ IF Len(Extended(includes, tracked, Resolving.uri, Inc)) <= ListCap
       THEN /\ includes' = [includes EXCEPT ![Resolving.uri] =
                               Kept(Extended(includes, tracked, Resolving.uri, Inc))]
            /\ frames' = [frames EXCEPT ![Len(frames)] = [@ EXCEPT !.i = @ + 1, !.at = "for"]]
            /\ UNCHANGED include_exc
       ELSE /\ include_exc' = "MemoryError"
            /\ frames' = << >>
            /\ UNCHANGED includes
    /\ UNCHANGED << tracked, started >>
    /\ IncludesFrame

NextIncludes == PutFile \/ ResolveEnter \/ ResolveNext \/ ResolveAgain \/ ResolveExtend

SpecIncludes == InitIncludes /\ [][NextIncludes]_vars

\* ---- the server: find_id_in_includes

\* Registered files that include each other in any way, each with the id
\* or without.
InitFind ==
    /\ Constructed
    /\ state_completions = << >>
    /\ NoDoc /\ NoInclude /\ NoOrder /\ NoUris /\ NoJinja /\ NoWorkspace /\ NoIncludes /\ NoEdit
    /\ sls_files \in Registered
    /\ found = NotSought

\* find_id_in_includes(id_to_find, starting_uri)
FindId ==
    /\ ~found.done
    /\ \E uri \in SlsFiles :
          found' = [done |-> TRUE, start |-> uri,
                    exc |-> FindIdInIncludes(sls_files, uri, 1).exc,
                    uri |-> FindIdInIncludes(sls_files, uri, 1).uri]
    /\ UNCHANGED << scanner_vars, token, pc, iter, open_nodes, exc, parser_vars, resolver_vars,
                    visit_vars, symbol_vars, doc_vars, file_vars, order_vars, uri_vars,
                    jinja_vars, workspace_vars, include_vars, edit_vars, sls_files >>

SpecFind == InitFind /\ [][FindId]_vars

\* ---- the server: reconcile_file

\* A file registered with any text.
InitEdit ==
    /\ Constructed
    /\ state_completions = << >>
    /\ NoDoc /\ NoInclude /\ NoOrder /\ NoUris /\ NoJinja /\ NoWorkspace /\ NoIncludes /\ NoFind
    /\ \E text \in TextsUpTo(MaxText) : Registering(text)

\* reconcile_file(params), params.content_changes being any ranged changes.
Reconcile ==
    /\ ~reconciled
    /\ reconciled' = TRUE
    /\ \E k \in 0..MaxChanges : \E changes \in [1..k -> RangedChanges] :
          /\ content_changes' = changes
          /\ sls_file' = ReconcileFile(sls_file, sls_file.contents, changes)
    /\ UNCHANGED << scanner_vars, token, pc, iter, open_nodes, exc, parser_vars, resolver_vars,
                    visit_vars, symbol_vars, doc_vars, file_vars, order_vars, uri_vars,
                    jinja_vars, workspace_vars, include_vars, find_vars, opened >>

SpecEdit == InitEdit /\ [][Reconcile]_vars

\* ------------------------------------------------------------ the properties

\* parse has returned its tree.
Returned == pc = "done"

\* The scanner raised: parse went through its except clause.
ScanFailed == err # NoError

InSeq(x, seq) == \E i \in 1..Len(seq) : seq[i] = x

\* The nodes a node holds in its child collections (Tree.includes, Tree.extend,
\* states, parameters, requisites, includes).
ChildrenOf(ns, n) ==
    SelectSeq(<< ns[n].includes, ns[n].extend >>, LAMBDA x : x # 0) \o ns[n].kids \o ns[n].reqs

\* The nodes of the tree ns, from the root: todo holds those still to be listed.
RECURSIVE Listed(_, _)
Listed(ns, todo) ==
    IF todo = << >> THEN {}
    ELSE {Head(todo)} \cup Listed(ns, ChildrenOf(ns, Head(todo)) \o Tail(todo))

\* The nodes of the tree being built.
TreeNodes == Listed(nodes, << 1 >>)

\* The state calls of the tree.
Calls == { n \in TreeNodes : nodes[n].kind = "StateCallNode" }

\* Node n has both its start and its end.
Spanned(n) == nodes[n].start # NoPos /\ nodes[n].end # NoPos

\* The node created just before node m.  A convert is called by set_key on the
\* node the token before had added, so the node convert creates follows the
\* provisional node it replaces.
Provisional(m) == m - 1

\* ---- C1

\* C1: parse(document) returns a Tree and raises no exception, whatever the
\* document: no step of _process_token reads the top of an empty breadcrumb
\* stack or looks up a missing set_key.
C1_NoThrow == pc # "raised"

\* ---- C2

\* C2, as stated: in a returned tree no StateCallNode.parameters holds a
\* StateParameterNode whose name is a requisite keyword.
C2_NoRequisiteParameter ==
    Returned =>
        \A c \in Calls : \A i \in 1..Len(nodes[c].kids) :
            nodes[nodes[c].kids[i]].name \notin AllRequisitesKeys

\* Node r, of the requisites of call c, replaces a provisional parameter: it is
\* a RequisitesNode of a requisite kind, the parameter has left parameters, r
\* starts where the parameter starts.
ReplacesParameter(c, r) ==
    /\ nodes[r].kind = "RequisitesNode"
    /\ nodes[r].name \in AllRequisitesKeys
    /\ nodes[Provisional(r)].kind = "StateParameterNode"
    /\ nodes[Provisional(r)].parent = c
    /\ ~InSeq(Provisional(r), nodes[c].kids)
    /\ nodes[r].start = nodes[Provisional(r)].start

\* In this step parameter p, one of the parameters of its state call after the
\* step, gets a requisite keyword as its name.
NamedRequisite(p) ==
    /\ nodes'[p].kind = "StateParameterNode"
    /\ nodes'[p].name \in AllRequisitesKeys
    /\ (p > Len(nodes) \/ nodes[p].name # nodes'[p].name)
    /\ nodes'[p].parent # 0
    /\ InSeq(p, nodes'[nodes'[p].parent].kids)

\* C2, amended: in every returned tree each member of a StateCallNode's
\* requisites is a RequisitesNode of a requisite kind that replaced a
\* provisional parameter, which has left parameters and whose start it has;
\* and a parameter that stays in parameters under a requisite keyword never
\* got that name from a key (set_key): it got it from a scalar that was no
\* key, the entry "- require" whose colon is not typed yet.
C2_KeyedRequisiteReclassified ==
    /\ [](Returned => \A c \in Calls : \A i \in 1..Len(nodes[c].reqs) :
                          ReplacesParameter(c, nodes[c].reqs[i]))
    /\ [][\A p \in 1..Len(nodes') : NamedRequisite(p) => ~next_scalar_as_key]_vars

\* A returned tree with a requisites node in a state call.
C2_Witness == Returned /\ \E c \in Calls : nodes[c].reqs # << >>

\* ---- C3

\* C3: when the scanner raises, parse returns the tree without raising, and
\* every node that was on the breadcrumbs when the scanner raised has an end
\* in the returned tree.
C3_RecoveryCloses ==
    ScanFailed =>
        /\ pc # "raised"
        /\ Returned => \A i \in 1..Len(open_nodes) : nodes[open_nodes[i]].end # NoPos

\* ---- C4

\* C4: in every returned tree, with or without recovery, a node that has both
\* start and end has start <= end.
C4_StartBeforeEnd ==
    Returned => \A n \in TreeNodes : Spanned(n) => PosLe(nodes[n].start, nodes[n].end)

\* A tree returned after a recovery, with a node below the root that spans
\* some text.
C4_Witness ==
    /\ Returned /\ ScanFailed
    /\ \E n \in TreeNodes : n # 1 /\ Spanned(n) /\ PosLt(nodes[n].start, nodes[n].end)

\* ---- C5

\* Child c lies within its parent n.
Within(n, c) == PosLe(nodes[n].start, nodes[c].start) /\ PosLe(nodes[c].end, nodes[n].end)

\* C5: in every returned tree, a child that has start and end, of a node that
\* has start and end, starts no earlier and ends no later than the node.
C5_ChildWithinParent ==
    Returned =>
        \A n \in TreeNodes : \A i \in 1..Len(ChildrenOf(nodes, n)) :
            Spanned(n) /\ Spanned(ChildrenOf(nodes, n)[i]) => Within(n, ChildrenOf(nodes, n)[i])

\* ---- C6

\* The path resolver has answered.
Resolved == pos # NoPos /\ exc = "none"

\* C6, as stated: the last node of a non-empty path contains the position
\* with its end excluded: start <= position, and position < end where the
\* node has an end; a position equal to a node's end never selects the node.
C6_EndExclusive ==
    Resolved /\ path # << >> =>
        /\ PosLe(nodes[Last(path)].start, pos)
        /\ nodes[Last(path)].end # NoPos => PosLt(pos, nodes[Last(path)].end)

\* Node n spans position p, its end included; a node without an end spans
\* all that follows its start.
Spans(n, p) == PosLe(nodes[n].start, p) /\ (nodes[n].end = NoPos \/ PosLe(p, nodes[n].end))

\* The nodes the resolver looks at: those of the tree but the entries of an
\* IncludesNode.
Visited == { n \in TreeNodes : nodes[n].kind # "IncludeNode" }

\* C6, amended: a node contains the position when start <= position <= end,
\* the end included, or when start <= position and the node has no end: the
\* last node of a non-empty path does, and the path is empty only when no
\* node the resolver looks at does.
C6_EndInclusive ==
    Resolved =>
        /\ path # << >> => Spans(Last(path), pos)
        /\ path = << >> => \A n \in Visited : ~Spans(n, pos)

\* A position equal to the end of a node below the root selects that node.
C6_Witness ==
    Resolved /\ Len(path) > 1 /\ pos = nodes[Last(path)].end

\* ---- C7

\* Node n contains position p, the end excluded.
Contains(n, p) == PosLe(nodes[n].start, p) /\ (nodes[n].end = NoPos \/ PosLt(p, nodes[n].end))

\* C7, as stated: the last node of the path is the innermost one: no node of
\* its child collections, IncludesNode.includes among them, contains the
\* position.
C7_Innermost ==
    Resolved /\ path # << >> =>
        \A i \in 1..Len(ChildrenOf(nodes, Last(path))) :
            ~Contains(ChildrenOf(nodes, Last(path))[i], pos)

\* C7, amended: the last node of the path is the innermost of the nodes the
\* resolver looks at: it is no IncludeNode, and unless it is an IncludesNode,
\* whose entries the resolver never looks at, no node of its child
\* collections spans the position.
C7_InnermostVisited ==
    Resolved /\ path # << >> =>
        /\ nodes[Last(path)].kind # "IncludeNode"
        /\ nodes[Last(path)].kind # "IncludesNode" =>
              \A i \in 1..Len(ChildrenOf(nodes, Last(path))) :
                  ~Spans(ChildrenOf(nodes, Last(path))[i], pos)

\* A path that ends at an IncludesNode one of whose entries contains the
\* position.
C7_Witness ==
    /\ Resolved /\ path # << >>
    /\ nodes[Last(path)].kind = "IncludesNode"
    /\ \E i \in 1..Len(nodes[Last(path)].kids) : Contains(nodes[Last(path)].kids[i], pos)

\* ---- C8

\* C8: a non-empty path starts with the root Tree, and each node of it is a
\* member of a child collection of the node before it, which is its parent.
C8_PathChain ==
    Resolved /\ path # << >> =>
        /\ path[1] = 1 /\ nodes[1].kind = "Tree"
        /\ \A i \in 1..(Len(path) - 1) :
              /\ InSeq(path[i + 1], ChildrenOf(nodes, path[i]))
              /\ nodes[path[i + 1]].parent = path[i]

\* A path of four nodes: tree, state, state call, parameter or requisites.
C8_Witness == Resolved /\ Len(path) >= 4

\* ---- C9

\* Node m, the includes or the extend of the tree, replaces a provisional
\* state: it is of class kind, the state has left Tree.states, m starts where
\* the state starts.
ReplacesState(m, kind) ==
    /\ nodes[m].kind = kind
    /\ nodes[Provisional(m)].kind = "StateNode"
    /\ nodes[Provisional(m)].parent = 1
    /\ ~InSeq(Provisional(m), nodes[1].kids)
    /\ nodes[m].start = nodes[Provisional(m)].start

\* C9: after parse, Tree.states holds no StateNode named include or extend;
\* Tree.includes is an IncludesNode and Tree.extend an ExtendNode, each in the
\* place of a provisional StateNode that has left Tree.states and whose start
\* it has.
C9_IncludeExtendConverted ==
    Returned =>
        /\ \A i \in 1..Len(nodes[1].kids) : nodes[nodes[1].kids[i]].name \notin {"include", "extend"}
        /\ nodes[1].includes # 0 => ReplacesState(nodes[1].includes, "IncludesNode")
        /\ nodes[1].extend # 0 => ReplacesState(nodes[1].extend, "ExtendNode")

\* A returned tree with both an includes and an extend node.
C9_Witness == Returned /\ nodes[1].includes # 0 /\ nodes[1].extend # 0

\* ---- C10

\* The parameter on top of the breadcrumbs is sealed in this step: the capture
\* it started ends.
Sealing == capture /\ ~capture'

\* The value of the sealed parameter p: the text of the one scalar captured,
\* else the captured TokenNodes in their order, p being their parent.
SealedValue(p) ==
    IF Len(unprocessed_tokens) = 1 /\ nodes[unprocessed_tokens[1]].token.kind = "Scalar"
    THEN nodes'[p].value = StrValue(nodes[unprocessed_tokens[1]].token.value)
    ELSE /\ nodes'[p].value = TokensValue(unprocessed_tokens)
         /\ \A i \in 1..Len(unprocessed_tokens) :
               /\ nodes'[unprocessed_tokens[i]].kind = "TokenNode"
               /\ nodes'[unprocessed_tokens[i]].parent = p

VisitDone == calls # << >>

\* The index of the call of the visitor on node n (0: no call).
CallOf(n) == IF InSeq(n, calls) THEN CHOOSE i \in 1..Len(calls) : calls[i] = n ELSE 0

\* Node a is node n or lies above it.
Above(a, n) == InSeq(a, Context(nodes, n))

\* C11: visit on a composite node calls the visitor on the node before any of
\* its descendants, once on each node: a node called after the first has its
\* parent called before it, a composite node the visitor returned True on
\* (no descendant of a node it returned False on is called); every child of
\* such a node is called, the children in get_children order; and depth
\* first: between the call on a node and the call on one of its children only
\* descendants of the node are called.
C11_PreOrderVisit ==
    VisitDone =>
        /\ calls[1] = 1
        /\ \A i, j \in 1..Len(calls) : calls[i] = calls[j] => i = j
        /\ \A i \in 2..Len(calls) :
              /\ nodes[calls[i]].parent # 0
              /\ nodes[nodes[calls[i]].parent].kind \in MapKinds
              /\ nodes[calls[i]].parent \notin refused
              /\ CallOf(nodes[calls[i]].parent) \in 1..(i - 1)
              /\ \A m \in (CallOf(nodes[calls[i]].parent) + 1)..(i - 1) :
                    Above(nodes[calls[i]].parent, calls[m])
        /\ \A i \in 1..Len(calls) :
              nodes[calls[i]].kind \in MapKinds /\ calls[i] \notin refused =>
                  \A a, b \in 1..Len(ChildrenOf(nodes, calls[i])) :
                      /\ CallOf(ChildrenOf(nodes, calls[i])[a]) > i
                      /\ a < b => CallOf(ChildrenOf(nodes, calls[i])[a])
                                      < CallOf(ChildrenOf(nodes, calls[i])[b])

\* A visit with a composite node below the root that has children and that
\* the visitor returned False on, and a node called after it.
C11_Witness ==
    /\ VisitDone
    /\ \E n \in refused : /\ n # 1
                          /\ nodes[n].kind \in MapKinds
                          /\ ChildrenOf(nodes, n) # << >>
                          /\ CallOf(n) \in 1..(Len(calls) - 1)

\* ---- C12

\* tree_to_document_symbols has returned its list.
SymbolsGiven == symbols_exc = "none"

\* The nodes the symbols of a list are of, in the order of the list.
NodesOf(syms) == [i \in 1..Len(syms) |-> syms[i].node]

\* The symbols of a list and the symbols below them.
RECURSIVE AllSymbols(_)
AllSymbols(syms) ==
    IF syms = << >> THEN << >>
    ELSE << Head(syms) >> \o AllSymbols(Head(syms).children) \o AllSymbols(Tail(syms))

\* The nodes of a list that have a name, a start and an end.
Named(list) == SelectSeq(list, LAMBDA n : ~NoSymbol(nodes, n))

\* The place of an element of the tree: 0 for Tree.includes, 1 for
\* Tree.extend, 1 + i for the i-th of Tree.states, -1 for any other node.
ElemRank(n) ==
    IF n # 0 /\ n = nodes[1].includes THEN 0
    ELSE IF n # 0 /\ n = nodes[1].extend THEN 1
    ELSE IF InSeq(n, nodes[1].kids)
         THEN 1 + (CHOOSE i \in 1..Len(nodes[1].kids) : nodes[1].kids[i] = n)
         ELSE -1

\* C12: the list tree_to_document_symbols returns holds the entry of
\* Tree.includes, then the entry of Tree.extend, then the entries of the
\* elements of Tree.states in their order, which is the order of the
\* document; every such element that has a name and a range has its entry;
\* and the children of every entry, at any depth, are the entries of the
\* node's child collection in its order.
C12_SymbolOrder ==
    SymbolsGiven =>
        /\ \A i \in 1..Len(document_symbols) : ElemRank(document_symbols[i].node) >= 0
        /\ \A i, j \in 1..Len(document_symbols) :
              i < j => /\ ElemRank(document_symbols[i].node) < ElemRank(document_symbols[j].node)
                       /\ ElemRank(document_symbols[i].node) >= 2 =>
                             PosLt(document_symbols[i].start, document_symbols[j].start)
        /\ \A n \in 1..Len(nodes) :
              ElemRank(n) >= 0 /\ ~NoSymbol(nodes, n) => InSeq(n, NodesOf(document_symbols))
        /\ \A e \in Elems(AllSymbols(document_symbols)) :
              NodesOf(e.children) = Named(SymbolChildren(nodes, e.node))

\* A list with the entries of the includes, of the extend section and of a
\* state, the entry of the includes with a child.
C12_Witness ==
    /\ SymbolsGiven
    /\ Len(document_symbols) >= 3
    /\ document_symbols[1].name = "includes"
    /\ document_symbols[1].children # << >>
    /\ document_symbols[2].name = "extend"
    /\ nodes[document_symbols[3].node].kind = "StateNode"

\* ---- C13

\* Node n gets no entry: it has no name, no start or no end.
Skipped(n) == NoSymbol(nodes, n)

\* The lists of nodes the entries are made from: the elements of the tree
\* and the child collection of every node that has an entry.
SymbolLists ==
    { SelectSeq([n \in 1..Len(nodes) |-> n], LAMBDA n : ElemRank(n) = 0)
      \o SelectSeq([n \in 1..Len(nodes) |-> n], LAMBDA n : ElemRank(n) = 1)
      \o nodes[1].kids }
    \cup { SymbolChildren(nodes, e.node) : e \in Elems(AllSymbols(document_symbols)) }

\* The entry of node n comes before the entry of node m in one list of entries.
EntryBefore(n, m) ==
    \E syms \in { document_symbols } \cup { e.children : e \in Elems(AllSymbols(document_symbols)) } :
        \E i, j \in 1..Len(syms) : i < j /\ syms[i].node = n /\ syms[j].node = m

\* C13: a node of the tree (the Tree itself, node 1, is not one of them)
\* without a name, a start or an end has no entry in the list
\* tree_to_document_symbols returns, at any depth, and neither has a node
\* below it; the nodes before and after it in its list that have a name and
\* a range have their entries, in the order of the list.
C13_SkippedNode ==
    SymbolsGiven =>
        /\ \A n \in 2..Len(nodes) : \A e \in Elems(AllSymbols(document_symbols)) :
              Skipped(n) => ~Above(n, e.node)
        /\ \A list \in SymbolLists : \A i, k, j \in 1..Len(list) :
              i < k /\ k < j /\ Skipped(list[k]) /\ ~Skipped(list[i]) /\ ~Skipped(list[j])
                  => EntryBefore(list[i], list[j])

\* A list of entries made from a list with a skipped node between two
\* nodes that have entries.
C13_Witness ==
    /\ SymbolsGiven
    /\ \E list \in SymbolLists : \E i, k, j \in 1..Len(list) :
          /\ i < k /\ k < j
          /\ Skipped(list[k]) /\ ~Skipped(list[i]) /\ ~Skipped(list[j])
          /\ EntryBefore(list[i], list[j])

\* ---- C14

\* The detail of the node has been computed.
DetailGiven == detail.exc = "none"

\* The names without a dot.
Plain == { cs \in ModNames(MaxName) : \A i \in 1..Len(cs) : cs[i] # "." }

\* The documentation the index has of module m (NoStr: none).
ModuleDoc(m) ==
    IF m \in DOMAIN state_completions THEN state_completions[m].state_docs ELSE NoStr

\* The documentation the index has of submodule sub of module m (NoStr: none).
SubDoc(m, sub) ==
    IF m \in DOMAIN state_completions /\ sub \in DOMAIN state_completions[m].state_params
    THEN state_completions[m].state_params[sub] ELSE NoStr

\* C14 as stated: the detail of a node named mod.sub is the documentation of
\* sub under mod when the index has one, else the documentation of the module
\* mod when the index has one, and the empty string only when it has neither.
C14_FallbackToModule ==
    DetailGiven =>
        \A m, sub \in Plain :
            mod_name = m \o << "." >> \o sub =>
                detail.val = (IF SubDoc(m, sub) # NoStr THEN SubDoc(m, sub)
                              ELSE IF ModuleDoc(m) # NoStr THEN ModuleDoc(m) ELSE "")

\* C14: the detail of a node named mod.sub is the documentation of sub under
\* mod when the index has one and the empty string when it has none, whatever
\* the documentation of the module; the documentation of the module is the
\* detail of a node whose name has no dot and is the name of the module.
C14_SubmoduleOrEmpty ==
    DetailGiven =>
        /\ \A m, sub \in Plain :
              mod_name = m \o << "." >> \o sub =>
                  detail.val = (IF SubDoc(m, sub) # NoStr THEN SubDoc(m, sub) ELSE "")
        /\ mod_name \in Plain =>
              detail.val = (IF ModuleDoc(mod_name) # NoStr THEN ModuleDoc(mod_name) ELSE "")

\* The node is named a.b, the index documents the module a and not its
\* submodule b, and the detail is empty.
C14_Witness ==
    /\ DetailGiven
    /\ mod_name = << "a", ".", "b" >>
    /\ ModuleDoc(<< "a" >>) = "doc of a"
    /\ SubDoc(<< "a" >>, << "b" >>) = NoStr
    /\ detail.val = ""

\* ---- C15

\* The detail of the node has been asked for.
DetailAsked == detail.exc # "unasked"

\* The module the name is of: the name up to its first dot.
ModuleOf(cs) == Split(cs, << >>)[1]

\* C15 as stated: the lookup does not raise, and a name whose module is not in
\* the index gives the empty detail, whatever number of dots it has.
C15_MissNeverRaises ==
    DetailAsked =>
        /\ detail.exc = "none"
        /\ ModuleOf(mod_name) \notin DOMAIN state_completions => detail.val = ""

\* ---- C16

\* The directory the files are looked for in: top_path if it is a directory,
\* else its parent.
Root == IF is_dir THEN top_path ELSE Dirname(top_path)

\* root/p/init.sls and root/p.sls, p being the value with its dots replaced
\* by path separators.
InitSls == Norm(Root \o << "/" >> \o Dotless(include_value) \o << "/", "init.sls" >>, << >>)

EntrySls == Norm(Root \o << "/" >> \o Dotless(include_value) \o << ".sls" >>, << >>)

\* C16 as stated: get_file returns None when the value is None; else the file
\* root/p/init.sls if it exists, else the file root/p.sls if it exists, else
\* None.
C16_IncludeFile ==
    asked =>
        IF include_value = Absent THEN ~file.found
        ELSE IF InitSls \in files THEN file.found /\ Norm(file.path, << >>) = InitSls
        ELSE IF EntrySls \in files THEN file.found /\ Norm(file.path, << >>) = EntrySls
        ELSE ~file.found

\* ---- C17

\* Line i of the document is an empty list entry: a dash with nothing after
\* it, followed by the next entry of its list or by the end of its block.
EmptyEntryAt(i) ==
    /\ document[i].shape = "E"
    /\ i < Len(document) =>
          \/ document[i + 1].col < document[i].col
          \/ /\ document[i + 1].col = document[i].col
             /\ document[i + 1].shape \in {"E", "EV", "EK", "EKV", "EKF"}

\* Node n is the parameter or requisite made for the entry of line i.
EntryNode(n, i) ==
    /\ nodes[n].kind \in {"StateParameterNode", "RequisiteNode"}
    /\ nodes[n].start = Pos(i - 1, document[i].col)

\* Where the token after the entry of line i starts: the next line, or the
\* end of the document.
AfterEntry(i) == IF i < Len(document) THEN Pos(i, document[i + 1].col) ELSE Pos(Len(document), 0)

Lexicographic(a, b) == a.line < b.line \/ (a.line = b.line /\ a.col < b.col)

\* C18: the comparison of positions is the lexicographic order of the pairs
\* (line, col), and a total order: of a < b, a == b and a > b exactly one
\* holds; a <= b holds iff a < b or a == b; a >= b holds iff a > b or
\* a == b; and a < b and b < c give a < c.
C18_TotalOrder ==
    compared.done =>
        /\ compared.lt <=> Lexicographic(operands[1], operands[2])
        /\ compared.gt <=> Lexicographic(operands[2], operands[1])
        /\ compared.eq <=> (operands[1].line = operands[2].line /\ operands[1].col = operands[2].col)
        /\ \/ compared.lt /\ ~compared.eq /\ ~compared.gt
           \/ ~compared.lt /\ compared.eq /\ ~compared.gt
           \/ ~compared.lt /\ ~compared.eq /\ compared.gt
        /\ compared.le <=> (compared.lt \/ compared.eq)
        /\ compared.ge <=> (compared.gt \/ compared.eq)
        /\ compared.lt /\ compared.lt_bc => compared.lt_ac

\* Three positions in ascending order, the line deciding against the column
\* between the first two.
C18_Witness ==
    /\ compared.done
    /\ operands[1].line < operands[2].line /\ operands[1].col > operands[2].col
    /\ compared.lt /\ compared.lt_bc /\ compared.lt_ac

\* ---- C19

\* C19 as stated: a lookup through any key form of a path returns the value
\* last stored under the path through any form, and raises KeyError if there
\* is none; the dictionary has at most one entry for a path; and a key that
\* is a URI of another scheme raises ValueError.
C19_OneEntryPerPath ==
    /\ request.kind = "get" /\ request.path # << >> =>
          /\ request.res = request.last
          /\ request.exc = (IF request.last = 0 THEN "KeyError" ELSE "none")
    /\ Cardinality(DOMAIN data) <= Cardinality({ p \in Paths : stored[p] # 0 })
    /\ request.string \in ForeignUris => request.exc = "ValueError"

\* ---- C20

\* The blocks and branches of the Jinja tree.
JinjaBlocks == { n \in 1..Len(jinja.ns) : jinja.ns[n].kind = "BlockNode" }

JinjaBranches == { n \in 1..Len(jinja.ns) : jinja.ns[n].kind = "BranchNode" }

\* The end of the last child of node n.
LastEnd(n) == jinja.ns[Last(jinja.ns[n].kids)].end

\* C20: when parse has returned, every BranchNode and BlockNode has its end
\* and every BlockNode its block_end_start; a block no end token closed
\* ends, and has its block_end_start, where its last branch ends; and a
\* branch ends where its last body node ends, or at its expression end when
\* its body is empty.
C20_AllClosed ==
    returned =>
        /\ \A n \in JinjaBlocks :
              /\ jinja.ns[n].end # NoPos /\ jinja.ns[n].block_end_start # NoPos
              /\ jinja.ns[n].by # "token" =>
                    /\ jinja.ns[n].kids # << >>
                    /\ jinja.ns[n].end = LastEnd(n)
                    /\ jinja.ns[n].block_end_start = LastEnd(n)
        /\ \A n \in JinjaBranches :
              /\ jinja.ns[n].end # NoPos
              /\ jinja.ns[n].end = (IF jinja.ns[n].kids # << >> THEN LastEnd(n)
                                    ELSE jinja.ns[n].expression_end)

\* A returned tree with a block no end token closed that has two branches,
\* the last with a body.
C20_Witness ==
    /\ returned
    /\ \E n \in JinjaBlocks :
          /\ jinja.ns[n].by = "end"
          /\ Len(jinja.ns[n].kids) >= 2
          /\ jinja.ns[Last(jinja.ns[n].kids)].kids # << >>

\* ---- C21

\* The step processes one collection end token and nothing else: a token of
\* the scanner, or the block end parse makes up for an open node that starts
\* right of the error.
EndStep ==
    \/ pc = "scan" /\ queue # << >> /\ Head(queue).kind \in EndKinds
    \/ /\ pc = "recover" /\ HasNext
       /\ nodes[breadcrumbs[iter]].start # NoPos
       /\ err.context.col < nodes[breadcrumbs[iter]].start.col

\* The token of that step.
EndToken == IF pc = "scan" THEN Head(queue) ELSE ErrorEnd

\* The breadcrumbs from place k on are popped in this step and end with the
\* token, the topmost unless it is a TokenNode.
PoppedFrom(k) ==
    /\ breadcrumbs' = SubSeq(breadcrumbs, 1, k - 1)
    /\ \A i \in k..Len(breadcrumbs) :
          i < Len(breadcrumbs) \/ nodes[breadcrumbs[i]].kind # "TokenNode" =>
              nodes'[breadcrumbs[i]].end = EndToken.end

\* C21 as stated: an end token processed with block starts pops the last
\* block start and pops and ends breadcrumbs until the node of that block
\* start is on top of the breadcrumbs again.
C21_RecordedBackOnTop ==
    [][EndStep /\ block_starts # << >> /\ breadcrumbs # << >> =>
          /\ block_starts' = Front(block_starts)
          /\ \E k \in 1..(Len(breadcrumbs) + 1) : PoppedFrom(k)
          /\ breadcrumbs' # << >>
          /\ Last(breadcrumbs') = Last(block_starts).node]_vars

\* C21: an end token processed with block starts and breadcrumbs pops the
\* last block start and pops breadcrumbs, at least one, each popped node
\* ending with the token (the first popped only if it is no TokenNode), until
\* the node of that block start has itself been popped, or none is left.
C21_PopsRecorded ==
    [][EndStep /\ block_starts # << >> /\ breadcrumbs # << >> =>
          /\ block_starts' = Front(block_starts)
          /\ \E k \in 1..Len(breadcrumbs) :
                /\ PoppedFrom(k)
                /\ k = 1 \/ breadcrumbs[k] = Last(block_starts).node
                /\ \A i \in (k + 1)..Len(breadcrumbs) :
                      breadcrumbs[i] # Last(block_starts).node]_vars

\* The block end of a state's mapping has been processed: it closed the
\* state call on top and the state under it, the node of the block start.
C21_Witness ==
    /\ pc = "scan" /\ token.kind = "BlockEnd" /\ breadcrumbs = << 1 >>
    /\ \E n \in 1..Len(nodes) :
          /\ nodes[n].kind = "StateCallNode" /\ nodes[n].end = token.end
          /\ nodes[nodes[n].parent].kind = "StateNode"
          /\ nodes[nodes[n].parent].end = token.end

\* ---- C22

\* The step processes the end token of a collection nested in the value of a
\* parameter: the capture runs and the start of the collection, a TokenNode,
\* is on top of the breadcrumbs.
NestedEndStep ==
    /\ pc = "scan" /\ queue # << >> /\ Head(queue).kind \in EndKinds
    /\ capture /\ breadcrumbs # << >>
    /\ nodes[Last(breadcrumbs)].kind = "TokenNode"

\* C22: the end token of a collection nested in a parameter's value closes
\* that collection only: every StateParameterNode on the breadcrumbs stays
\* there, still without a value, and the capture goes on, for the end token
\* of the parameter's own block to seal it.
C22_NestedEndKeepsParameter ==
    [][NestedEndStep =>
          /\ capture'
          /\ \A i \in 1..Len(breadcrumbs) :
                nodes[breadcrumbs[i]].kind = "StateParameterNode" =>
                    /\ InSeq(breadcrumbs[i], breadcrumbs')
                    /\ nodes'[breadcrumbs[i]].end = NoPos]_vars

\* ---- C23

\* The step processes a key, list entry or scalar token of the scanner while
\* the capture is active.
CapturedStep ==
    /\ pc = "scan" /\ queue # << >> /\ capture
    /\ Head(queue).kind \in {"Key", "BlockEntry", "Scalar"}

\* The token of the step becomes one TokenNode, the last of
\* unprocessed_tokens, and nothing else changes: no node is added to a list of
\* the tree, no node gets a name, a reference, a value or a span, and the
\* breadcrumbs and the block starts are as before.
CapturedRaw ==
    /\ nodes' = Append(nodes, NewTokenNode(Head(queue)))
    /\ unprocessed_tokens' = Append(unprocessed_tokens, Len(nodes) + 1)
    /\ capture'
    /\ breadcrumbs' = breadcrumbs
    /\ block_starts' = block_starts
    /\ next_scalar_as_key' = next_scalar_as_key

\* C23: while the capture is active, a key, list entry or scalar token is
\* appended to unprocessed_tokens as one TokenNode, in the order of arrival;
\* it adds no node to the tree, names no node, and the key, list entry and
\* scalar rules are skipped.
C23_CapturedRaw == [][CapturedStep => CapturedRaw]_vars

\* ---- C24

\* The classes of the nodes a convert makes.
ConvertedKinds == {"IncludesNode", "ExtendNode", "RequisitesNode"}

\* In this step a scalar token of the scanner has set_key return a node that
\* is not its receiver: a convert has made the newest node.
SetKeyChanged ==
    /\ pc = "scan" /\ queue # << >> /\ Head(queue).kind = "Scalar"
    /\ pc' # "raised"
    /\ Len(nodes') > Len(nodes)
    /\ nodes'[Len(nodes')].kind \in ConvertedKinds

\* The receiver of that set_key: the top of the breadcrumbs for a scalar taken
\* as a key, else the child just added for the scalar.
Receiver == IF next_scalar_as_key THEN Last(breadcrumbs) ELSE Len(nodes') - 1

\* old is on no breadcrumb and in no block start after the step.
Unreferenced(old) ==
    /\ ~InSeq(old, breadcrumbs')
    /\ \A i \in 1..Len(block_starts') : block_starts'[i].node # old

\* C24 as stated: whenever set_key returns a node that is not its receiver,
\* the returned node is on top of the breadcrumbs once the scalar is
\* processed, and no breadcrumb and no block start refers to the receiver.
C24_ReturnedOnTop ==
    [][SetKeyChanged =>
          /\ breadcrumbs' # << >>
          /\ Last(breadcrumbs') = Len(nodes')
          /\ Unreferenced(Receiver)]_vars

\* C24: whenever set_key, called on the top of the breadcrumbs for a scalar
\* taken as a key, returns a node that is not its receiver, the returned node
\* has the receiver's place on top of the breadcrumbs once the scalar is
\* processed, the block starts of the receiver are block starts of the
\* returned node, and no breadcrumb and no block start refers to the receiver.
C24_KeyReturnedOnTop ==
    [][SetKeyChanged /\ next_scalar_as_key =>
          /\ breadcrumbs' = Append(Front(breadcrumbs), Len(nodes'))
          /\ Len(block_starts') = Len(block_starts)
          /\ \A i \in 1..Len(block_starts) :
                block_starts'[i].node =
                    (IF block_starts[i].node = Last(breadcrumbs) THEN Len(nodes')
                     ELSE block_starts[i].node)
          /\ Unreferenced(Last(breadcrumbs))]_vars

\* The key "require" of a list entry has been processed: the RequisitesNode
\* made for the parameter is on top, with the block start of the entry's
\* mapping.
C24_Witness ==
    /\ pc = "scan" /\ token.kind = "Scalar" /\ token.value = "require"
    /\ breadcrumbs # << >> /\ Last(breadcrumbs) = Len(nodes)
    /\ nodes[Last(breadcrumbs)].kind = "RequisitesNode"
    /\ block_starts # << >> /\ Last(block_starts).node = Last(breadcrumbs)

\* ---- C25

\* The step processes a list entry token of the scanner that is at the start
\* column of the node on top of the breadcrumbs.
SameColumnEntry ==
    /\ pc = "scan" /\ queue # << >> /\ Head(queue).kind = "BlockEntry"
    /\ breadcrumbs # << >>
    /\ nodes[Last(breadcrumbs)].start # NoPos
    /\ nodes[Last(breadcrumbs)].start.col = Head(queue).start.col

\* The top node is popped and ends where the dash starts; then the node
\* under it, if it is a StateCallNode, IncludesNode or RequisitesNode, gets
\* one new child, which starts where the dash starts and is pushed; no other
\* node is made.
EntryClosesThenAdds ==
    LET dash == Head(queue)
        rest == Front(breadcrumbs)
        new == Len(nodes) + 1
    IN /\ nodes'[Last(breadcrumbs)].end = dash.start
       /\ IF rest # << >> /\ nodes[Last(rest)].kind \in EntryKinds
          THEN /\ Len(nodes') = new
               /\ breadcrumbs' = Append(rest, new)
               /\ nodes'[new].kind = Children(nodes[Last(rest)].kind)
               /\ nodes'[new].start = dash.start
               /\ nodes'[Last(rest)].kids = Append(nodes[Last(rest)].kids, new)
          ELSE /\ Len(nodes') = Len(nodes)
               /\ breadcrumbs' = rest

\* C25 as stated: whenever a list entry token arrives at the start column of
\* the node on top of the breadcrumbs, that node is popped and ends at the
\* dash, and then a StateCallNode, IncludesNode or RequisitesNode on top gets
\* one child, started at the dash and pushed.
C25_EntryAlways == [][SameColumnEntry => EntryClosesThenAdds]_vars

\* C25: when no capture is active and a list entry token arrives at the
\* start column of the node on top of the breadcrumbs, that node is popped
\* and ends at the dash before anything else, and then a StateCallNode,
\* IncludesNode or RequisitesNode on top gets exactly one child, started at
\* the dash and pushed.
C25_EntryClosesThenAdds == [][SameColumnEntry /\ ~capture => EntryClosesThenAdds]_vars

\* The second dash of a list has been processed: the entry before it ends
\* where the dash starts, and the new entry, on top, starts there.
C25_Witness ==
    /\ pc = "scan" /\ token.kind = "BlockEntry" /\ ~capture
    /\ breadcrumbs # << >> /\ Last(breadcrumbs) = Len(nodes)
    /\ nodes[Last(breadcrumbs)].start = token.start
    /\ \E n \in 1..Len(nodes) :
          /\ nodes[n].kind = nodes[Last(breadcrumbs)].kind
          /\ nodes[n].end = token.start
          /\ nodes[n].start.col = token.start.col

\* ---- C26

\* The classes of the nodes no list entry token made.
OwnerKinds == {"Tree", "StateNode", "StateCallNode"}

\* C26: a list entry token pops neither the Tree nor a StateNode nor a
\* StateCallNode: those of the breadcrumbs keep their places when the token
\* is processed.
C26_EntryKeepsOwners ==
    [][pc = "scan" /\ queue # << >> /\ Head(queue).kind = "BlockEntry" =>
          \A i \in 1..Len(breadcrumbs) :
              nodes[breadcrumbs[i]].kind \in OwnerKinds =>
                  i <= Len(breadcrumbs') /\ breadcrumbs'[i] = breadcrumbs[i]]_vars

\* ---- C27

\* The step processes a key token of the scanner that makes a new node.
KeyCreates ==
    /\ pc = "scan" /\ queue # << >> /\ Head(queue).kind = "Key"
    /\ pc' # "raised"
    /\ Len(nodes') > Len(nodes)

\* The line of the document the token t is of.
LineOf(t) == document[t.start.line + 1]

\* Where the list entry marker before the key token t is, if the key follows
\* one on its line.
MarkerBefore(t) ==
    IF LineOf(t).shape \in {"EK", "EKV", "EKF"} THEN Pos(t.start.line, LineOf(t).col) ELSE NoPos

\* C27: the node a key token makes starts where the list entry marker before
\* the key is, if there is one, else where the key token starts; and
\* last_start is clear afterwards.
C27_StartsAtMarker ==
    [][KeyCreates =>
          /\ nodes'[Len(nodes')].start =
                (IF MarkerBefore(Head(queue)) # NoPos THEN MarkerBefore(Head(queue))
                 ELSE Head(queue).start)
          /\ last_start' = NoPos]_vars

\* ---- C28

\* The step processes a scalar token of the scanner that is not taken as a
\* key, outside a capture, with a StateNode or the Tree on top of the
\* breadcrumbs.
PlainScalarStep ==
    /\ pc = "scan" /\ queue # << >> /\ Head(queue).kind = "Scalar"
    /\ ~capture /\ ~next_scalar_as_key
    /\ breadcrumbs # << >>
    /\ nodes[Last(breadcrumbs)].kind \in {"StateNode", "Tree"}

\* The node on top gets exactly one new child, named by the scalar and
\* spanning it, which is not pushed.
OneChildNamed ==
    LET scalar == Head(queue)
        top == Last(breadcrumbs)
        new == Len(nodes) + 1
    IN /\ Len(nodes') = new
       /\ nodes'[top].kids = Append(nodes[top].kids, new)
       /\ nodes'[new].kind = Children(nodes[top].kind)
       /\ nodes'[new].name = scalar.value
       /\ nodes'[new].start = scalar.start
       /\ nodes'[new].end = scalar.end
       /\ ~InSeq(new, breadcrumbs')

\* The scalar being the plain value of the key before it, the node on top is
\* popped and ends with the scalar; else the breadcrumbs are as before.
ValueSeals ==
    IF next_token_is_value
    THEN /\ breadcrumbs' = Front(breadcrumbs)
         /\ nodes'[Last(breadcrumbs)].end = Head(queue).end
    ELSE breadcrumbs' = breadcrumbs

\* C28: a scalar that is no key and arrives with a StateNode or the Tree on
\* top of the breadcrumbs makes exactly one child of that node, named by the
\* scalar, with the scalar's span, and not pushed; the node on top is popped
\* and ends with the scalar if the scalar is the value of the key before it,
\* else the breadcrumbs stay.
C28_ScalarChild == [][PlainScalarStep => OneChildNamed /\ ValueSeals]_vars

\* ---- C29

\* The step is one pass of the recovery loop, on the open node it has come to.
RecoverStep == pc = "recover" /\ HasNext

Visiting == breadcrumbs[iter]

\* The node the loop has come to starts left of, at, or right of the column
\* of the error, err.context_mark.column.
StartsLeft == nodes[Visiting].start # NoPos /\ nodes[Visiting].start.col < err.context.col

StartsAt == nodes[Visiting].start # NoPos /\ nodes[Visiting].start.col = err.context.col

StartsRight == nodes[Visiting].start # NoPos /\ nodes[Visiting].start.col > err.context.col

ErrorEndProcessed ==
    IF block_starts # << >>
    THEN /\ block_starts' = Front(block_starts)
         /\ \E k \in 1..Len(breadcrumbs) :
               /\ PoppedFrom(k)
               /\ k = 1 \/ breadcrumbs[k] = Last(block_starts).node
    ELSE /\ block_starts' = block_starts
         /\ breadcrumbs' = breadcrumbs
         /\ \A n \in 1..Len(nodes) : nodes'[n] = nodes[n]

EqualStep == RecoverStep /\ StartsAt

\* A node of the tree ns has the text as its name.
NameInTree(ns, text) == \E n \in Listed(ns, << 1 >>) : ns[n].name = text

\* C30: in the recovery, for an open node that starts at the error column
\* parse processes a block end made up at the context position and then a
\* plain scalar made up of the text between the context and the problem
\* position, without raising, and after that a node of the tree has that
\* text as its name.
C30_TextBecomesName ==
    [][EqualStep => /\ pc' = "recover" /\ exc' = "none"
                    /\ NameInTree(nodes', err.value)]_vars

\* Node c has node m as its parent.
ChildOf(c, m) == nodes[c].parent = m

\* C31: in every tree parse returns, the parent of each node of a child
\* collection (includes and extend of the Tree, the states, parameters,
\* requisites and include entries) is the node that holds the collection,
\* and the Tree has no parent.
C31_ParentOwns ==
    Returned =>
        /\ nodes[1].parent = 0
        /\ \A m \in TreeNodes :
              \A i \in 1..Len(ChildrenOf(nodes, m)) : ChildOf(ChildrenOf(nodes, m)[i], m)

\* C32: when parse returns and the scanner did not raise, every node of the
\* tree has its start and its end.
C32_AllSpanned == Returned /\ ~ScanFailed => \A n \in TreeNodes : Spanned(n)

\* Node n of the arena has its end and is no TokenNode.
Sealed(n) == nodes[n].kind # "TokenNode" /\ nodes[n].end # NoPos

TreeRemoved ==
    /\ breadcrumbs # << >> /\ breadcrumbs[1] = 1
    /\ breadcrumbs' = << >> \/ breadcrumbs'[1] # 1

\* C34: while a block is open (a block start is recorded) the breadcrumbs are
\* not empty and the Tree is their bottom, and the only step that takes the
\* Tree off the breadcrumbs is the end token of the outermost block.
C34_TreeAtBottom ==
    [][/\ block_starts' # << >> => breadcrumbs' # << >> /\ breadcrumbs'[1] = 1
       /\ TreeRemoved => EndStep /\ Len(block_starts) = 1]_vars

\* The step processes an end token of the scanner with no capture active and
\* no block start recorded.
UnmatchedEnd ==
    /\ pc = "scan" /\ queue # << >> /\ Head(queue).kind \in EndKinds
    /\ ~capture /\ block_starts = << >>

\* C35: with no capture active, an end token processed while block_starts is
\* empty raises nothing and leaves the breadcrumbs, the block starts, every
\* flag of the parser and every node as they were.
C35_UnmatchedEndIgnored ==
    [][UnmatchedEnd => pc' # "raised" /\ UNCHANGED parser_vars]_vars

\* A closing bracket has been processed with the Tree on the breadcrumbs and
\* no block start.
C35_Witness ==
    /\ pc = "scan" /\ token.kind \in {"FlowSequenceEnd", "FlowMappingEnd"}
    /\ ~capture /\ block_starts = << >>
    /\ \E i \in 1..Len(document) : document[i].shape \in Closers /\ token.start = Pos(i - 1, document[i].col)
    /\ breadcrumbs = << 1 >>

\* ---- C36

\* The tree kept for uri is the parse of the source the workspace has for it.
TreeOfSource(uri) ==
    /\ parse(ws_docs[uri].source).exc = "none"
    /\ trees[uri].val = parse(ws_docs[uri].source).nodes

\* The symbols kept for uri are those of the tree kept for it.
SymbolsOfTree(uri) ==
    /\ SymbolsRaise(trees[uri].val, WorkspaceCompletions) = "none"
    /\ ws_document_symbols[uri].val
          = TreeToDocumentSymbols(trees[uri].val, WorkspaceCompletions, "none")

\* C36: after any sequence of put_document, update_document and
\* remove_document calls, trees and document_symbols hold the same URIs, and
\* for every document the workspace has, the tree kept is the parse of its
\* current source and the symbols kept are those of that tree.
C36_TreesFollowSources ==
    \A uri \in Uris :
       /\ trees[uri].kept <=> ws_document_symbols[uri].kept
       /\ ws_docs[uri].tracked /\ trees[uri].kept => TreeOfSource(uri) /\ SymbolsOfTree(uri)

\* ---- C37

\* put_document has returned.
FileResolved == started /\ frames = << >> /\ include_exc = "none"

\* The files reached from the files of set in at most n steps of includes.
RECURSIVE Reach(_, _)
Reach(set, n) ==
    IF n = 0 THEN set
    ELSE Reach(set \cup UNION { Elems(graph[f]) : f \in set }, n - 1)

\* The files uri includes, directly or through the files it includes.
Included(uri) == Reach(Elems(graph[uri]), Cardinality(SlsFiles))

\* C37: _resolve_includes terminates for every include graph, a file that
\* includes itself and files that include each other in a circle too: its
\* list never grows until the memory runs out, and when the put_document
\* that calls it has returned, the list kept for a file holds every file it
\* includes, directly or through the files it includes.
C37_ResolveReturns ==
    /\ include_exc = "none"
    /\ FileResolved =>
          \A f \in SlsFiles : includes[f].kept => Included(f) \subseteq Elems(includes[f].val)

\* ---- C38

\* The files reached from the files of set in at most n steps of includes.
RECURSIVE Reached(_, _)
Reached(set, n) ==
    IF n = 0 THEN set
    ELSE Reached(set \cup UNION { Elems(sls_files[f].includes) : f \in set }, n - 1)

\* The files uri includes, directly or through the files it includes.
IncludedBy(uri) == Reached(Elems(sls_files[uri].includes), Cardinality(SlsFiles))

HasId(f) == sls_files[f].defines # "absent"

\* C38: find_id_in_includes returns on every include graph, circles too;
\* it returns None when no included file, direct or not, has the id; and
\* when a direct include has the id, the Location returned is in a direct
\* include that has it.
C38_FindReturns ==
    found.done =>
       /\ found.exc = "none"
       /\ (\A f \in IncludedBy(found.start) : ~HasId(f)) => found.uri = "None"
       /\ (\E f \in Elems(sls_files[found.start].includes) : sls_files[f].defines = "node")
            /\ (\A f \in Elems(sls_files[found.start].includes) :
                   sls_files[f].defines # "primitive")
            => found.uri \in Elems(sls_files[found.start].includes) /\ HasId(found.uri)

\* ---- C39

\* The changes applied one after another, each to the text the one before
\* made.
RECURSIVE Applied(_, _)
Applied(text, changes) ==
    IF changes = << >> THEN text ELSE Applied(Splice(text, Head(changes)), Tail(changes))

\* C39: after reconcile_file has processed a notification of several ranged
\* changes, the contents stored are the changes applied one after another,
\* each range resolved against the text the change before made, and the
\* parsed contents are those of that text.
C39_ChangesApplied ==
    reconciled =>
       /\ sls_file.contents = Applied(opened, content_changes)
       /\ ~LoadRaises(sls_file.contents) =>
             sls_file.parsed_contents = Kept(Load(sls_file.contents, << >>))

\* ---- C40

\* The data and variable nodes of the Jinja tree.
JinjaLeaves == { n \in 1..Len(jinja.ns) : jinja.ns[n].kind \in { "DataNode", "VariableNode" } }

\* C40: jinja_parser.parse is fault tolerant: on every token list, with end
\* tags that do not match the innermost open block, end and else tags with
\* no open block, and data, variable and block tokens after them, it raises
\* nothing, and data and variable nodes are children of BranchNodes only.
C40_FaultTolerant ==
    /\ jinja.exc = "none"
    /\ \A n \in JinjaLeaves : jinja.ns[jinja.ns[n].parent].kind = "BranchNode"

====
